---------------------------- MODULE Spec2Model ----------------------------
(***************************************************************************)
(* Model of the hybrid search engine of climate_tech_discovery_backend:    *)
(* HybridSearch (src/src/search/hybrid_search.py) with its collaborators   *)
(* FaissManager, BM25Engine, Embedder, QueryProcessor and                  *)
(* ResultDiversifier.                                                      *)
(*                                                                         *)
(* Conventions.                                                            *)
(*  - A Python Optional value is a sequence of length 0 (None) or 1.       *)
(*  - Text is a sequence of lower-case tokens; Python's substring test     *)
(*    `x in text` is modelled as "the token sequence x occurs contiguously *)
(*    in text".                                                            *)
(*  - Weights are kept in tenths (0.6 is 6), fused scores are scaled by    *)
(*    10 * RRFScale so that they stay exact integers.                      *)
(***************************************************************************)
EXTENDS Integers, Sequences, FiniteSets, TLC

VARIABLES
    db,               \* record store: set of document ids currently present
    emb_file,         \* persisted embeddings + id mapping (None or <<ids>>)
    faiss_file,       \* persisted FAISS index file (None or <<vectors>>)
    faiss,            \* FaissManager: index, startup_ids (+ build epochs)
    bm25,             \* BM25Engine: bm25, documents, startup_ids (+ epochs)
    model_loaded,     \* Embedder.model is not None
    semantic_weight,  \* HybridSearch.semantic_weight, in tenths
    is_initialized,   \* HybridSearch.is_initialized
    epochs,           \* history: number of index builds started so far
    init_runs,        \* history: number of executions of initialize()
    th,               \* per-thread position and locals of the running call
    calls,            \* number of calls started (bounded by MaxCalls)
    edits,            \* number of record-store edits (bounded by MaxEdits)
    last,             \* the last completed sequential call and its result
    hash_order,       \* the set iteration order of this process
    loads,            \* history: attempts and successes of Embedder._load_model
    dv,               \* the diversifier call under test
    fn                \* the call of a single function under test

vars == <<db, emb_file, faiss_file, faiss, bm25, model_loaded, semantic_weight,
          is_initialized, epochs, init_runs, th, calls, edits, last,
          hash_order, loads, dv, fn>>

engineVars == <<db, emb_file, faiss_file, faiss, bm25, model_loaded,
                semantic_weight, is_initialized, epochs, init_runs, th,
                calls, edits, last, hash_order, loads>>

-----------------------------------------------------------------------------
(* Bounds of the model *)

MaxHits == 5        \* longest hit list handed to diversify
MaxTotal == 4       \* largest total_results handed to diversify
MaxPer == 2         \* largest explicit max_per_vertical handed to diversify
MaxCalls == 2       \* calls started in one behaviour of the concurrent model
MaxEdits == 1       \* record-store edits in one behaviour
MaxTopK == 2        \* largest top_k handed to search()
MaxSeqCalls == 3    \* calls in one behaviour of the sequential model
MaxQueryCalls == 2  \* calls in one behaviour of the query model
MaxExplicit == 1    \* explicit filters set in one search() call
MaxStaleCalls == 2  \* calls in one behaviour of the stale-index model
MaxFuseLen == 3     \* longest candidate list handed to the fusion alone
MaxQueryLen == 3    \* longest query (in tokens) handed to the query processor alone
MaxFaissCalls == 3  \* calls made on a FaissManager on its own
MaxIndexSize == 6   \* most entries of an index queried on its own

(* Program constants *)

DefaultSemanticWeight == 6     \* settings.semantic_weight = 0.6
ConceptualWeight == 7          \* get_query_vector_weight: 0.7
SpecificWeight == 4            \* get_query_vector_weight: 0.4
DefaultQueryWeight == 6        \* get_query_vector_weight: 0.6
ExpandKeywords == 3            \* vertical.get("keywords", [])[:3]
DefaultTopK == 20              \* settings.default_top_k
MaxResultsPerVertical == 3     \* settings.max_results_per_vertical
FetchFactor == 5               \* fetch_k = min(top_k * 5, 200)
FetchCap == 200
RRFK == 60                     \* _reciprocal_rank_fusion(k=60)
EmbeddingDim == 768            \* settings.embedding_dim
MissingYearLow == 0            \* (founded_year or 0)
MissingYearHigh == 9999        \* (founded_year or 9999)
MissingFunding == 0            \* (total_funding_usd or 0)
Million == 1000000
Billion == 1000000000

-----------------------------------------------------------------------------
(* Python values *)

None == <<>>
Some(v) == <<v>>
IsNone(x) == x = <<>>

\* Python truthiness of an Optional[int]
TruthyInt(x) == x # <<>> /\ x[1] # 0
\* Python truthiness of an Optional[str]
TruthyStr(x) == x # <<>> /\ x[1] # ""

\* Python `a or b` on Optional[int] / Optional[str]
OrInt(a, b) == IF TruthyInt(a) THEN a ELSE b
OrStr(a, b) == IF TruthyStr(a) THEN a ELSE b

Min(a, b) == IF a <= b THEN a ELSE b

\* s[:n] for n >= 0
Take(s, n) == SubSeq(s, 1, Min(n, Len(s)))

Range(s) == {s[i] : i \in 1..Len(s)}

\* `x in text` on token sequences: x occurs contiguously in text
Occurs(x, text) ==
    \E i \in 0..(Len(text) - Len(x)) :
        \A j \in 1..Len(x) : text[i + j] = x[j]

-----------------------------------------------------------------------------
(* ResultDiversifier (src/src/search/diversifier.py)                        *)
(* A hit is [id, vertical, score]; vertical is startup.primary_vertical.    *)

\* keys of by_vertical in dict insertion order (first-seen truthy verticals)
RECURSIVE ByVerticalKeysFrom(_, _, _)
ByVerticalKeysFrom(results, i, keys) ==
    IF i > Len(results) THEN keys
    ELSE LET v == results[i].vertical IN
         IF TruthyStr(v) /\ v[1] \notin Range(keys)
         THEN ByVerticalKeysFrom(results, i + 1, Append(keys, v[1]))
         ELSE ByVerticalKeysFrom(results, i + 1, keys)

ByVerticalKeys(results) == ByVerticalKeysFrom(results, 1, <<>>)

\* by_vertical[v]
ByVertical(results, v) ==
    SelectSeq(results, LAMBDA h : TruthyStr(h.vertical) /\ h.vertical[1] = v)

\* no_vertical
NoVertical(results) == SelectSeq(results, LAMBDA h : ~TruthyStr(h.vertical))

\* the `for vertical in list(by_vertical.keys())` loop of one round
RECURSIVE VerticalPass(_, _, _, _, _, _)
VerticalPass(results, keys, i, total, max_per, st) ==
    IF i > Len(keys) THEN st
    ELSE LET v == keys[i]
             c == st.counts[v]
             vr == ByVertical(results, v)
         IN  IF c >= max_per
             THEN VerticalPass(results, keys, i + 1, total, max_per, st)
             ELSE IF c < Len(vr)
             THEN LET st2 == [div |-> Append(st.div, vr[c + 1]),
                              counts |-> [st.counts EXCEPT ![v] = c + 1],
                              added |-> TRUE]
                  IN  IF Len(st2.div) >= total THEN st2
                      ELSE VerticalPass(results, keys, i + 1, total, max_per, st2)
             ELSE VerticalPass(results, keys, i + 1, total, max_per, st)

\* the `while len(diversified) < total` loop
RECURSIVE RoundRobinFrom(_, _, _, _, _, _)
RoundRobinFrom(results, keys, total, max_per, round_num, st) ==
    IF ~(Len(st.div) < total) THEN st.div
    ELSE LET p == VerticalPass(results, keys, 1, total, max_per,
                               [st EXCEPT !.added = FALSE])
             nv == NoVertical(results)
             q == IF nv # <<>> /\ Len(p.div) < total /\ round_num < Len(nv)
                  THEN [p EXCEPT !.div = Append(p.div, nv[round_num + 1]),
                                 !.added = TRUE]
                  ELSE p
         IN  IF ~q.added THEN q.div
             ELSE RoundRobinFrom(results, keys, total, max_per, round_num + 1, q)

RoundRobin(results, total, max_per) ==
    LET keys == ByVerticalKeys(results) IN
    RoundRobinFrom(results, keys, total, max_per, 0,
                   [div |-> <<>>, counts |-> [v \in Range(keys) |-> 0],
                    added |-> FALSE])

\* the `for result in results` loop that adds the remaining hits
RECURSIVE BackfillFrom(_, _, _, _, _)
BackfillFrom(results, i, total, div, used) ==
    IF i > Len(results) \/ Len(div) >= total THEN div
    ELSE IF results[i].id \notin used
    THEN BackfillFrom(results, i + 1, total, Append(div, results[i]),
                      used \cup {results[i].id})
    ELSE BackfillFrom(results, i + 1, total, div, used)

\* a variant of the backfill below that walks the input from its end
BackfillReversed(results, total, div) ==
    IF Len(div) < total
    THEN BackfillFrom([i \in 1..Len(results) |-> results[Len(results) + 1 - i]],
                      1, total, div, {div[i].id : i \in 1..Len(div)})
    ELSE div

\* a variant of the backfill below that does not look at the ids already
\* emitted
BackfillAll(results, total, div) ==
    IF Len(div) < total
    THEN BackfillFrom(results, 1, total, div, {})
    ELSE div

Backfill(results, total, div) ==
    IF Len(div) < total
    THEN BackfillFrom(results, 1, total, div, {div[i].id : i \in 1..Len(div)})
    ELSE div

\* max_per = max_per_vertical or self.max_per_vertical
DivMaxPer(max_per_vertical) ==
    OrInt(max_per_vertical, Some(MaxResultsPerVertical))[1]

\* total = total_results or len(results)
DivTotal(results, total_results) == OrInt(total_results, Some(Len(results)))[1]

Diversify(results, total_results, max_per_vertical) ==
    IF results = <<>> THEN results
    ELSE LET max_per == DivMaxPer(max_per_vertical)
             total == DivTotal(results, total_results)
         IN  Take(Backfill(results, total, RoundRobin(results, total, max_per)),
                  total)

-----------------------------------------------------------------------------
(* The diversifier on its own: inputs drawn in DivInit, one call applied.   *)

DivVerticals == {None, Some("energy"), Some("transport")}

\* hit lists in fused order; ids are distinct (the position in the list)
DivHitLists ==
    UNION {{[i \in 1..n |-> [id |-> i, vertical |-> c[i], score |-> n - i]] :
              c \in [1..n -> DivVerticals]} : n \in 0..MaxHits}

\* rr is history: `diversified` when the round-robin loop ends
DivIdle == [pc |-> "idle", results |-> <<>>, total_results |-> None,
            max_per_vertical |-> None, rr |-> <<>>, out |-> <<>>]

DiversifyCall ==
    /\ dv.pc = "ready"
    /\ dv' = [dv EXCEPT !.pc = "done",
                        !.rr = IF dv.results = <<>> THEN <<>>
                               ELSE RoundRobin(dv.results,
                                        DivTotal(dv.results, dv.total_results),
                                        DivMaxPer(dv.max_per_vertical)),
                        !.out = Diversify(dv.results, dv.total_results,
                                          dv.max_per_vertical)]
    /\ UNCHANGED <<engineVars, fn>>

-----------------------------------------------------------------------------
(* Taxonomy (settings.get_climate_taxonomy): an ordered list of verticals   *)
(* and a synonym map. Names, keywords and synonyms are token sequences.     *)

Verticals ==
    << [id |-> "energy", name |-> <<"clean", "energy">>,
        keywords |-> << <<"solar">>, <<"wind">>, <<"grid">>, <<"storage">> >>],
       [id |-> "transport", name |-> <<"transport">>,
        keywords |-> << <<"bus">>, <<"ev">> >>] >>

Synonyms == << [term |-> <<"solar">>, synonyms |-> << <<"pv">> >>] >>

\* str.lower() on a token
LowerTok(t) == CASE t = "Solar" -> "solar"
                 [] t = "Named" -> "named"
                 [] OTHER -> t

Lower(text) == [i \in 1..Len(text) |-> LowerTok(text[i])]

-----------------------------------------------------------------------------
(* QueryProcessor (src/src/search/query_processor.py)                       *)

\* characters removed by re.sub(r"[^\w\s\-]", "", query), as tokens
SpecialTokens == {"$", "?"}

clean_query(query) == SelectSeq(query, LAMBDA t : t \notin SpecialTokens)

YearTokens == {"2020", "2022"}
NumberTokens == YearTokens \cup {"0", "2", "5"}

\* int(...) / float(...) of a run of digits
NumValue(t) == CASE t = "0" -> 0
                 [] t = "2" -> 2
                 [] t = "5" -> 5
                 [] t = "2020" -> 2020
                 [] t = "2022" -> 2022

At(q, i) == IF i >= 1 /\ i <= Len(q) THEN q[i] ELSE ""

\* re.search(r"(?:founded|started|since|after)\s*(?:in\s+)?(\d{4})", q)
YearMinMatch(q) ==
    LET kw == {"founded", "started", "since", "after"}
        hit(i) == q[i] \in kw /\
                  (At(q, i + 1) \in YearTokens \/
                   (At(q, i + 1) = "in" /\ At(q, i + 2) \in YearTokens))
        P == {i \in 1..Len(q) : hit(i)}
    IN  IF P = {} THEN None
        ELSE LET i == CHOOSE x \in P : \A y \in P : x <= y
             IN  IF At(q, i + 1) \in YearTokens
                 THEN Some(NumValue(q[i + 1]))
                 ELSE Some(NumValue(q[i + 2]))

\* re.search(r"(?:before|until)\s+(\d{4})", q)
YearMaxMatch(q) ==
    LET P == {i \in 1..Len(q) :
                q[i] \in {"before", "until"} /\ At(q, i + 1) \in YearTokens}
    IN  IF P = {} THEN None
        ELSE Some(NumValue(q[(CHOOSE x \in P : \A y \in P : x <= y) + 1]))

\* re.search(r"(?:raised|funding|over)\s*\$?(\d+(?:\.\d+)?)\s*(m|million|b|billion)?", q)
\* followed by the scaling of the amount by its unit
FundingMatch(q) ==
    LET kw == {"raised", "funding", "over"}
        numAt(i) == IF At(q, i + 1) \in NumberTokens THEN i + 1
                    ELSE IF At(q, i + 1) = "$" /\ At(q, i + 2) \in NumberTokens
                    THEN i + 2 ELSE 0
        P == {i \in 1..Len(q) : q[i] \in kw /\ numAt(i) # 0}
    IN  IF P = {} THEN None
        ELSE LET i == CHOOSE x \in P : \A y \in P : x <= y
                 n == numAt(i)
                 amount == NumValue(q[n])
                 unit == At(q, n + 1)
             IN  IF unit \in {"b", "billion"} THEN Some(amount * Billion)
                 ELSE IF unit \in {"m", "million"} THEN Some(amount * Million)
                 ELSE Some(amount)

\* the "Vertical detection" loop: a match by name breaks the loop over the
\* verticals, a match by keyword breaks only the loop over the keywords
RECURSIVE VerticalDetect(_, _, _)
VerticalDetect(q, i, cur) ==
    IF i > Len(Verticals) THEN cur
    ELSE LET v == Verticals[i] IN
         IF Occurs(Lower(v.name), q) THEN Some(v.id)
         ELSE IF \E k \in 1..Len(v.keywords) : Occurs(Lower(v.keywords[k]), q)
         THEN VerticalDetect(q, i + 1, Some(v.id))
         ELSE VerticalDetect(q, i + 1, cur)

\* extract_filters(query); an absent key of the dict is None (dict.get)
extract_filters(query) ==
    LET q == Lower(query) IN
    [vertical_filter |-> VerticalDetect(q, 1, None),
     founded_year_min |-> YearMinMatch(q),
     founded_year_max |-> YearMaxMatch(q),
     min_funding_usd |-> FundingMatch(q)]

ConceptualIndicators ==
    { <<"like">>, <<"similar">>, <<"related">>, <<"alternative">>,
      <<"comparable">>, <<"technology", "for">>, <<"solutions", "for">>,
      <<"companies", "doing">>, <<"startups", "working", "on">>,
      <<"focused", "on">> }

SpecificIndicators == { <<"named">>, <<"called">>, <<"exact">>, <<"specifically">> }

\* get_query_vector_weight(query), in tenths
get_query_vector_weight(query) ==
    LET q == Lower(query) IN
    IF \E x \in ConceptualIndicators : Occurs(x, q) THEN ConceptualWeight
    ELSE IF \E x \in SpecificIndicators : Occurs(x, q) THEN SpecificWeight
    ELSE DefaultQueryWeight

\* the set expanded_terms built by expand_query, without the query itself
ExpandedTerms(query) ==
    LET q == Lower(query)
        syn == UNION {
                 (IF Occurs(Lower(Synonyms[i].term), q)
                  THEN Range(Synonyms[i].synonyms) ELSE {})
                 \cup
                 (IF \E k \in 1..Len(Synonyms[i].synonyms) :
                        Occurs(Lower(Synonyms[i].synonyms[k]), q)
                  THEN {Synonyms[i].term} ELSE {}) : i \in 1..Len(Synonyms)}
        ver == UNION {
                 IF \E k \in 1..Len(Verticals[i].keywords) :
                       Occurs(Lower(Verticals[i].keywords[k]), q)
                 THEN Range(Take(Verticals[i].keywords, ExpandKeywords))
                 ELSE {} : i \in 1..Len(Verticals)}
    IN  (syn \cup ver) \ {query}

\* " ".join of a sequence of terms
RECURSIVE JoinTerms(_)
JoinTerms(terms) ==
    IF terms = <<>> THEN <<>> ELSE Head(terms) \o JoinTerms(Tail(terms))

\* the orders in which this process's string hashing can enumerate a set
\* of terms: the iteration order of a Python set of strings is fixed for a
\* process and differs between processes (hash randomisation)
HashOrders ==
    { << <<"solar">>, <<"pv">>, <<"wind">>, <<"grid">>, <<"bus">>, <<"ev">> >>,
      << <<"ev">>, <<"bus">>, <<"grid">>, <<"wind">>, <<"pv">>, <<"solar">> >> }

\* list(expanded_terms)
ListOfSet(S, order) == SelectSeq(order, LAMBDA x : x \in S)

\* expand_query(query)
expand_query(query, order) ==
    query \o JoinTerms(ListOfSet(ExpandedTerms(query), order))

-----------------------------------------------------------------------------
(* The record store's documents. The store (db) holds a subset of them;     *)
(* get_all_startups returns the present ones ordered by id.                 *)

Catalog ==
    << [text |-> <<"solar", "panels">>, primary_vertical |-> Some("energy"),
        founded_year |-> Some(2019), total_funding_usd |-> Some(3000000)],
       [text |-> <<"solar", "wind">>, primary_vertical |-> Some("energy"),
        founded_year |-> None, total_funding_usd |-> None],
       [text |-> <<"wind", "bus">>, primary_vertical |-> Some("transport"),
        founded_year |-> Some(2021), total_funding_usd |-> Some(1000000)],
       [text |-> <<>>, primary_vertical |-> None,
        founded_year |-> Some(2022), total_funding_usd |-> Some(0)] >>

DocIds == DOMAIN Catalog

\* Database.get_all_startups: SELECT * FROM startups ORDER BY id
RECURSIVE IdsFrom(_, _)
IdsFrom(store, i) ==
    IF i > Len(Catalog) THEN <<>>
    ELSE (IF i \in store THEN <<i>> ELSE <<>>) \o IdsFrom(store, i + 1)

get_all_startups(store) == IdsFrom(store, 1)

\* Database.get_startup_by_id: the row, or None
get_startup_by_id(store, id) == IF id \in store THEN Some(Catalog[id]) ELSE None

\* stable sort of the positions of `keys` by key, descending
\* (list.sort / sorted with reverse=True keep the order of equal keys)
RECURSIVE SortRest(_, _)
SortRest(keys, S) ==
    IF S = {} THEN <<>>
    ELSE LET b == CHOOSE p \in S : \A q \in S :
                      keys[p] > keys[q] \/ (keys[p] = keys[q] /\ p <= q)
         IN  <<b>> \o SortRest(keys, S \ {b})

StableSortDesc(keys) == SortRest(keys, 1..Len(keys))

-----------------------------------------------------------------------------
(* Embedder (src/src/search/embedder.py). The sentence-transformers model   *)
(* is external: a vector is represented by the set of tokens of the text it *)
(* encodes, the inner product of two vectors by the number of shared tokens.*)

TokenSet(text) == Range(Lower(text))

\* embed_startups: one vector per startup, in the order of the list
embed_startups(ids) == [i \in 1..Len(ids) |-> TokenSet(Catalog[ids[i]].text)]

\* embed_text
embed_text(text) == TokenSet(text)

InnerProduct(u, v) == Cardinality(u \cap v)

-----------------------------------------------------------------------------
(* FaissManager (src/src/search/faiss_manager.py)                           *)
(* index: None or Some(vectors); startup_ids: list. iepoch / sepoch record  *)
(* which build wrote each of the two fields (history only).                 *)

FaissNew == [index |-> None, startup_ids |-> <<>>, iepoch |-> 0, sepoch |-> 0]

\* build_index(embeddings, startup_ids)
FaissBuildIndex(f, embeddings, startup_ids, epoch) ==
    IF Len(embeddings) = 0 THEN f
    ELSE [index |-> Some(embeddings), startup_ids |-> startup_ids,
          iepoch |-> epoch, sepoch |-> epoch]

\* load_index(startup_ids=...), the index file being present
FaissLoadIndex(f, file, startup_ids, epoch) ==
    [index |-> Some(file),
     startup_ids |-> IF startup_ids # <<>> THEN startup_ids ELSE f.startup_ids,
     iepoch |-> epoch,
     sepoch |-> IF startup_ids # <<>> THEN epoch ELSE f.sepoch]

\* search(query_embedding, top_k): ids of the hits, best first
FaissSearch(f, query_embedding, top_k) ==
    IF f.index = None \/ Len(f.index[1]) = 0 THEN <<>>
    ELSE LET vectors == f.index[1]
             k == Min(top_k, Len(vectors))
             distances == [i \in 1..Len(vectors) |->
                              InnerProduct(query_embedding, vectors[i])]
             indices == Take(StableSortDesc(distances), k)
             kept == SelectSeq(indices, LAMBDA idx : idx <= Len(f.startup_ids))
         IN  [i \in 1..Len(kept) |-> f.startup_ids[kept[i]]]

-----------------------------------------------------------------------------
(* BM25Engine (src/src/search/bm25_engine.py)                               *)

\* the tokens of the vocabulary that _tokenize drops: stopwords, tokens of
\* length <= 1, and what r"\b[a-z0-9]+\b" does not match
Stopwords == {"in", "for", "on", "before", "after", "from"}
ShortTokens == {"0", "2", "5", "m", "b"}

Tokenize(text) ==
    SelectSeq(Lower(text),
              LAMBDA t : t \notin Stopwords \cup ShortTokens \cup SpecialTokens)

\* _prepare_document
PrepareDocument(id) ==
    LET d == Catalog[id] IN
    Tokenize(d.text \o (IF TruthyStr(d.primary_vertical)
                        THEN d.primary_vertical ELSE <<>>))

BM25New == [bm25 |-> None, documents |-> <<>>, startup_ids |-> <<>>,
            depoch |-> 0, mepoch |-> 0]

\* the reset and the loop of build_index: documents and startup_ids
BM25Documents(b, startups, epoch) ==
    LET kept == SelectSeq(startups, LAMBDA id : PrepareDocument(id) # <<>>) IN
    [b EXCEPT !.documents = [i \in 1..Len(kept) |-> PrepareDocument(kept[i])],
              !.startup_ids = kept,
              !.depoch = epoch]

\* the end of build_index: `if self.documents: self.bm25 = BM25Okapi(...)`
BM25Model(b, epoch) ==
    IF b.documents # <<>>
    THEN [b EXCEPT !.bm25 = Some(b.documents), !.mepoch = epoch]
    ELSE b

\* build_index(startups)
BM25BuildIndex(b, startups, epoch) ==
    BM25Model(BM25Documents(b, startups, epoch), epoch)

\* BM25Okapi.get_scores (rank_bm25, external): positive exactly for the
\* documents that hold a query token; here the number of occurrences
BM25Score(query_tokens, doc) ==
    Cardinality({<<i, j>> \in (1..Len(query_tokens)) \X (1..Len(doc)) :
                    query_tokens[i] = doc[j]})

\* search(query, top_k): ids of the hits, best first
BM25Search(b, query, top_k) ==
    IF b.bm25 = None \/ b.documents = <<>> THEN <<>>
    ELSE LET query_tokens == Tokenize(query) IN
         IF query_tokens = <<>> THEN <<>>
         ELSE LET corpus == b.bm25[1]
                  scores == [i \in 1..Len(corpus) |->
                                BM25Score(query_tokens, corpus[i])]
                  top == Take(StableSortDesc(scores), top_k)
                  kept == SelectSeq(top, LAMBDA idx :
                              scores[idx] > 0 /\ idx <= Len(b.startup_ids))
              IN  [i \in 1..Len(kept) |-> b.startup_ids[kept[i]]]

-----------------------------------------------------------------------------
(* HybridSearch (src/src/search/hybrid_search.py): the pure steps of search *)

\* scores are multiplied by 10 * RRFScale, a common multiple of the
\* denominators k + rank + 1 of every rank a candidate list can hold
RECURSIVE RRFProduct(_)
RRFProduct(n) == IF n = 0 THEN 1 ELSE (RRFK + n) * RRFProduct(n - 1)

RRFScale == RRFProduct(Len(Catalog))

\* keys of rrf_scores in insertion order
RECURSIVE FirstSeen(_, _)
FirstSeen(ids, seen) ==
    IF ids = <<>> THEN <<>>
    ELSE IF Head(ids) \in seen THEN FirstSeen(Tail(ids), seen)
    ELSE <<Head(ids)>> \o FirstSeen(Tail(ids), seen \cup {Head(ids)})

RECURSIVE SumOver(_, _)
SumOver(S, f) ==
    IF S = {} THEN 0
    ELSE LET x == CHOOSE y \in S : TRUE IN f[x] + SumOver(S \ {x}, f)

\* a variant of the contribution below that leaves the weight out
RankContributionUnweighted(ranking, id, w) ==
    SumOver({i \in 1..Len(ranking) : ranking[i] = id},
            [i \in 1..Len(ranking) |-> 10 * (RRFScale \div (RRFK + (i - 1) + 1))])

\* the contribution of one ranking to rrf_scores[id], with weight w in tenths
RankContribution(ranking, id, w) ==
    SumOver({i \in 1..Len(ranking) : ranking[i] = id},
            [i \in 1..Len(ranking) |-> w * (RRFScale \div (RRFK + (i - 1) + 1))])

\* _reciprocal_rank_fusion, reading the weight w (self.semantic_weight)
reciprocal_rank_fusion(semantic_results, keyword_results, w) ==
    LET keys == FirstSeen(semantic_results \o keyword_results, {})
        score == [i \in 1..Len(keys) |->
                    RankContribution(semantic_results, keys[i], w)
                    + RankContribution(keyword_results, keys[i], 10 - w)]
        order == StableSortDesc(score)
    IN  [i \in 1..Len(order) |-> [id |-> keys[order[i]], score |-> score[order[i]]]]

\* top_k = top_k or settings.default_top_k
EffectiveTopK(top_k) == OrInt(top_k, Some(DefaultTopK))[1]

\* a variant of the candidate budget below without the cap
FetchKUncapped(top_k) == top_k * FetchFactor

\* fetch_k = min(top_k * 5, 200)
FetchK(top_k) == Min(top_k * FetchFactor, FetchCap)

\* the four `x = x or extracted_filters.get(...)` lines
MergeFilters(explicit, extracted) ==
    [vertical |-> OrStr(explicit.vertical, extracted.vertical_filter),
     founded_year_min |-> OrInt(explicit.founded_year_min, extracted.founded_year_min),
     founded_year_max |-> OrInt(explicit.founded_year_max, extracted.founded_year_max),
     min_funding_usd |-> OrInt(explicit.min_funding_usd, extracted.min_funding_usd)]

\* the four `if ...: continue` filter tests on one startup
PassesFilters(startup, F) ==
    /\ ~(TruthyStr(F.vertical) /\ startup.primary_vertical # F.vertical)
    /\ ~(TruthyInt(F.founded_year_min) /\
         OrInt(startup.founded_year, Some(MissingYearLow))[1] < F.founded_year_min[1])
    /\ ~(TruthyInt(F.founded_year_max) /\
         OrInt(startup.founded_year, Some(MissingYearHigh))[1] > F.founded_year_max[1])
    /\ ~(TruthyInt(F.min_funding_usd) /\
         OrInt(startup.total_funding_usd, Some(MissingFunding))[1] < F.min_funding_usd[1])

\* a variant of the loop below that stops at the first id missing from the
\* record store
RECURSIVE FetchAndFilterAbort(_, _, _)
FetchAndFilterAbort(combined, store, F) ==
    IF combined = <<>> THEN <<>>
    ELSE LET startup == get_startup_by_id(store, Head(combined).id) IN
         IF startup = None THEN <<>>
         ELSE (IF PassesFilters(startup[1], F)
               THEN << [id |-> Head(combined).id,
                        vertical |-> startup[1].primary_vertical,
                        score |-> Head(combined).score] >>
               ELSE <<>>)
              \o FetchAndFilterAbort(Tail(combined), store, F)

\* a variant of the loop below that puts each kept hit in front of the hits
\* kept so far
RECURSIVE FetchAndFilterPrepend(_, _, _)
FetchAndFilterPrepend(combined, store, F) ==
    IF combined = <<>> THEN <<>>
    ELSE LET startup == get_startup_by_id(store, Head(combined).id) IN
         FetchAndFilterPrepend(Tail(combined), store, F)
         \o (IF startup # None /\ PassesFilters(startup[1], F)
             THEN << [id |-> Head(combined).id,
                      vertical |-> startup[1].primary_vertical,
                      score |-> Head(combined).score] >>
             ELSE <<>>)

\* the loop `for startup_id, rrf_score in combined_results`
RECURSIVE FetchAndFilter(_, _, _)
FetchAndFilter(combined, store, F) ==
    IF combined = <<>> THEN <<>>
    ELSE LET startup == get_startup_by_id(store, Head(combined).id) IN
         (IF startup # None /\ PassesFilters(startup[1], F)
          THEN << [id |-> Head(combined).id,
                   vertical |-> startup[1].primary_vertical,
                   score |-> Head(combined).score] >>
          ELSE <<>>)
         \o FetchAndFilter(Tail(combined), store, F)

\* diversification or truncation of the filtered hits
FinalResults(results, top_k, enable_diversity) ==
    IF enable_diversity THEN Diversify(results, Some(top_k), None)
    ELSE Take(results, top_k)

-----------------------------------------------------------------------------
(* The engine under concurrent callers. Each thread runs one call at a      *)
(* time; a call advances one statement group at a time, so that the reads   *)
(* and writes of the shared fields of two calls interleave.                 *)

Threads == {1, 2}

NoFilters == [vertical |-> None, founded_year_min |-> None,
              founded_year_max |-> None, min_funding_usd |-> None]

\* queries of the concurrent callers: a conceptual, a specific, a plain one
ConcQueries == { <<"like", "solar">>, <<"Named", "wind">>, <<"bus", "?">> }

Idle ==
    [op |-> "idle", pc |-> "idle", ret |-> "none", within_search |-> FALSE,
     query |-> <<>>, top_k |-> 0, explicit |-> NoFilters,
     enable_diversity |-> TRUE, enable_expansion |-> FALSE,
     F |-> NoFilters, search_query |-> <<>>, original_weight |-> 0,
     used_weight |-> 0, query_embedding |-> {},
     semantic_results |-> <<>>, keyword_results |-> <<>>,
     combined_results |-> <<>>, results |-> <<>>,
     startups |-> <<>>, embeddings |-> <<>>, startup_ids |-> <<>>,
     epoch |-> 0, sem_epochs |-> {}, kw_epochs |-> {}, embed_calls |-> 0]

\* history: which builds wrote the fields a FaissManager.search reads
FaissEpochsRead(f) ==
    IF f.index = None THEN {f.iepoch} ELSE {f.iepoch, f.sepoch}

\* history: which builds wrote the fields a BM25Engine.search reads
BM25EpochsRead(b) ==
    IF b.bm25 = None THEN {b.mepoch}
    ELSE IF b.documents = <<>> THEN {b.depoch}
    ELSE {b.mepoch, b.depoch}

InitStores == {{}, {2}, DocIds}

\* the persisted snapshot a rebuild of `store` leaves behind
SnapshotOf(store) ==
    [emb |-> Some([embeddings |-> embed_startups(get_all_startups(store)),
                   startup_ids |-> get_all_startups(store)]),
     index |-> Some(embed_startups(get_all_startups(store)))]

\* the engine right after HybridSearch.__init__
EngineInit ==
    /\ db \in InitStores
    /\ \/ emb_file = None /\ faiss_file = None
       \/ db # {} /\ emb_file = SnapshotOf(db).emb /\ faiss_file = SnapshotOf(db).index
       \/ db # {} /\ emb_file = SnapshotOf(db).emb /\ faiss_file = None
    /\ faiss = FaissNew
    /\ bm25 = BM25New
    /\ model_loaded = FALSE
    /\ semantic_weight = DefaultSemanticWeight
    /\ is_initialized = FALSE
    /\ epochs = 0
    /\ init_runs = 0
    /\ th = [t \in Threads |-> Idle]
    /\ calls = 0
    /\ edits = 0
    /\ last = [op |-> "none"]
    /\ hash_order \in HashOrders
    /\ loads = [attempts |-> 0, done |-> 0]

Free(t) == th[t].pc \in {"idle", "done"}

\* a new call runs on the first free thread
Picks(t) == Free(t) /\ \A u \in Threads : u < t => ~Free(u)

Set(t, r) == th' = [th EXCEPT ![t] = r]

\* a finished call: its locals are gone, what it read and returned is kept
Done(r, how) ==
    [Idle EXCEPT !.op = r.op, !.pc = "done", !.ret = how, !.query = r.query,
                 !.used_weight = r.used_weight, !.sem_epochs = r.sem_epochs,
                 !.kw_epochs = r.kw_epochs, !.results = r.results,
                 !.embed_calls = r.embed_calls]

\* the record store changes under the engine: a row is deleted or inserted
StoreEdit ==
    /\ last.op = "none"
    /\ edits < MaxEdits
    /\ edits' = edits + 1
    /\ \E id \in DocIds : db' = IF id \in db THEN db \ {id} ELSE db \cup {id}
    /\ UNCHANGED <<emb_file, faiss_file, faiss, bm25, model_loaded,
                   semantic_weight, is_initialized, epochs, init_runs, th,
                   calls, last, hash_order, loads, dv, fn>>

(* ---- call starts ---- *)

StartSearch(t) ==
    /\ Picks(t) /\ calls < MaxCalls
    /\ calls' = calls + 1
    /\ \E q \in ConcQueries :
           Set(t, [Idle EXCEPT !.op = "search", !.pc = "s_init", !.query = q,
                               !.top_k = EffectiveTopK(None)])
    /\ UNCHANGED <<db, emb_file, faiss_file, faiss, bm25, model_loaded,
                   semantic_weight, is_initialized, epochs, init_runs, edits,
                   last, hash_order, loads, dv, fn>>

StartRebuild(t) ==
    /\ Picks(t) /\ calls < MaxCalls
    /\ calls' = calls + 1
    /\ Set(t, [Idle EXCEPT !.op = "rebuild", !.pc = "r_read"])
    /\ UNCHANGED <<db, emb_file, faiss_file, faiss, bm25, model_loaded,
                   semantic_weight, is_initialized, epochs, init_runs, edits,
                   last, hash_order, loads, dv, fn>>

StartInitialize(t) ==
    /\ Picks(t) /\ calls < MaxCalls
    /\ calls' = calls + 1
    /\ Set(t, [Idle EXCEPT !.op = "initialize", !.pc = "i_load"])
    /\ UNCHANGED <<db, emb_file, faiss_file, faiss, bm25, model_loaded,
                   semantic_weight, is_initialized, epochs, init_runs, edits,
                   last, hash_order, loads, dv, fn>>


(* ---- initialize(), standalone or called from search() ---- *)

\* where a call goes when initialize() returns
AfterInitialize(r) ==
    IF r.within_search THEN [r EXCEPT !.pc = "s_prep"] ELSE Done(r, "returned")

\* embeddings, startup_ids = self.embedder.load_embeddings(); the test of
\* line 44 and the else branch
InitLoad(t) ==
    /\ th[t].pc = "i_load"
    /\ init_runs' = init_runs + 1
    /\ IF emb_file # None /\ emb_file[1].startup_ids # <<>>
       THEN /\ epochs' = epochs + 1
            /\ Set(t, [th[t] EXCEPT !.pc = "i_faiss",
                                    !.embeddings = emb_file[1].embeddings,
                                    !.startup_ids = emb_file[1].startup_ids,
                                    !.epoch = epochs + 1])
       ELSE /\ epochs' = epochs
            /\ Set(t, AfterInitialize(th[t]))
    /\ UNCHANGED <<db, emb_file, faiss_file, faiss, bm25, model_loaded,
                   semantic_weight, is_initialized, calls, edits, last, hash_order, loads, dv, fn>>

\* load_index(startup_ids=...), and build_index + save_index if it is False
InitFaiss(t) ==
    /\ th[t].pc = "i_faiss"
    /\ IF faiss_file # None
       THEN /\ faiss' = FaissLoadIndex(faiss, faiss_file[1], th[t].startup_ids,
                                       th[t].epoch)
            /\ faiss_file' = faiss_file
       ELSE /\ faiss' = FaissBuildIndex(faiss, th[t].embeddings,
                                        th[t].startup_ids, th[t].epoch)
            /\ faiss_file' = IF faiss'.index = None THEN faiss_file
                             ELSE Some(faiss'.index[1])
    /\ Set(t, [th[t] EXCEPT !.pc = "bm_docs"])
    /\ UNCHANGED <<db, emb_file, bm25, model_loaded, semantic_weight,
                   is_initialized, epochs, init_runs, calls, edits, last, hash_order, loads, dv, fn>>

(* ---- rebuild_index() ---- *)

\* startups = self.db.get_all_startups(), and the early return
\* a variant of the step below that takes the engine out of service when the
\* record store is empty
RebuildReadReset(t) ==
    /\ th[t].pc = "r_read"
    /\ LET startups == get_all_startups(db) IN
       IF startups = <<>>
       THEN /\ epochs' = epochs
            /\ is_initialized' = FALSE
            /\ Set(t, Done(th[t], "returned"))
       ELSE /\ epochs' = epochs + 1
            /\ is_initialized' = is_initialized
            /\ Set(t, [th[t] EXCEPT !.pc = "r_embed", !.startups = startups,
                                    !.epoch = epochs + 1])
    /\ UNCHANGED <<db, emb_file, faiss_file, faiss, bm25, model_loaded,
                   semantic_weight, init_runs, calls, edits,
                   last, hash_order, loads, dv, fn>>

RebuildRead(t) ==
    /\ th[t].pc = "r_read"
    /\ LET startups == get_all_startups(db) IN
       IF startups = <<>>
       THEN /\ epochs' = epochs
            /\ Set(t, Done(th[t], "returned"))
       ELSE /\ epochs' = epochs + 1
            /\ Set(t, [th[t] EXCEPT !.pc = "r_embed", !.startups = startups,
                                    !.epoch = epochs + 1])
    /\ UNCHANGED <<db, emb_file, faiss_file, faiss, bm25, model_loaded,
                   semantic_weight, is_initialized, init_runs, calls, edits,
                   last, hash_order, loads, dv, fn>>

\* embed_startups -> embed_batch -> _load_model: the test `self.model is
\* None`; with the model in place, the encoding and save_embeddings
RebuildEmbed(t) ==
    /\ th[t].pc = "r_embed"
    /\ IF model_loaded
       THEN /\ emb_file' = Some([embeddings |-> embed_startups(th[t].startups),
                                 startup_ids |-> th[t].startups])
            /\ Set(t, [th[t] EXCEPT !.pc = "r_findex",
                                    !.embeddings = embed_startups(th[t].startups),
                                    !.startup_ids = th[t].startups])
       ELSE /\ emb_file' = emb_file
            /\ Set(t, [th[t] EXCEPT !.pc = "r_load"])
    /\ UNCHANGED <<db, faiss_file, faiss, bm25, model_loaded, semantic_weight,
                   is_initialized, epochs, init_runs, calls, edits, last,
                   hash_order, loads, dv, fn>>

\* _load_model inside embed_batch: SentenceTransformer(...) succeeds or
\* raises; on success the encoding and save_embeddings follow
RebuildLoadModel(t) ==
    /\ th[t].pc = "r_load"
    /\ \/ /\ model_loaded' = TRUE
          /\ loads' = [attempts |-> loads.attempts + 1, done |-> loads.done + 1]
          /\ emb_file' = Some([embeddings |-> embed_startups(th[t].startups),
                               startup_ids |-> th[t].startups])
          /\ Set(t, [th[t] EXCEPT !.pc = "r_findex",
                                  !.embeddings = embed_startups(th[t].startups),
                                  !.startup_ids = th[t].startups])
       \/ /\ loads' = [loads EXCEPT !.attempts = loads.attempts + 1]
          /\ UNCHANGED <<model_loaded, emb_file>>
          /\ Set(t, Done(th[t], "raised"))
    /\ UNCHANGED <<db, faiss_file, faiss, bm25, semantic_weight,
                   is_initialized, epochs, init_runs, calls, edits, last,
                   hash_order, dv, fn>>

\* build_index, lines 33-45: self.index = faiss.IndexFlatIP(...); add(...)
RebuildFaissIndex(t) ==
    /\ th[t].pc = "r_findex"
    /\ faiss' = [FaissBuildIndex(faiss, th[t].embeddings, th[t].startup_ids,
                                 th[t].epoch)
                 EXCEPT !.startup_ids = faiss.startup_ids,
                        !.sepoch = faiss.sepoch]
    /\ Set(t, [th[t] EXCEPT !.pc = "r_fids"])
    /\ UNCHANGED <<db, emb_file, faiss_file, bm25, model_loaded,
                   semantic_weight, is_initialized, epochs, init_runs, calls,
                   edits, last, hash_order, loads, dv, fn>>

\* build_index, line 46: self.startup_ids = list(startup_ids); save_index
RebuildFaissIds(t) ==
    /\ th[t].pc = "r_fids"
    /\ faiss' = [faiss EXCEPT
                   !.startup_ids = FaissBuildIndex(faiss, th[t].embeddings,
                                       th[t].startup_ids, th[t].epoch).startup_ids,
                   !.sepoch = FaissBuildIndex(faiss, th[t].embeddings,
                                       th[t].startup_ids, th[t].epoch).sepoch]
    /\ faiss_file' = IF faiss.index = None THEN faiss_file ELSE Some(faiss.index[1])
    /\ Set(t, [th[t] EXCEPT !.pc = "bm_docs"])
    /\ UNCHANGED <<db, emb_file, bm25, model_loaded, semantic_weight,
                   is_initialized, epochs, init_runs, calls, edits, last, hash_order, loads, dv, fn>>

(* ---- the tail shared by initialize() and rebuild_index() ---- *)

\* BM25Engine.build_index: the reset of documents / startup_ids and the
\* loop; initialize() reads the store just before (line 53)
BuildBM25Documents(t) ==
    /\ th[t].pc = "bm_docs"
    /\ LET startups == IF th[t].op = "rebuild" THEN th[t].startups
                       ELSE get_all_startups(db)
       IN  bm25' = BM25Documents(bm25, startups, th[t].epoch)
    /\ Set(t, [th[t] EXCEPT !.pc = "bm_model"])
    /\ UNCHANGED <<db, emb_file, faiss_file, faiss, model_loaded,
                   semantic_weight, is_initialized, epochs, init_runs, calls,
                   edits, last, hash_order, loads, dv, fn>>

\* BM25Engine.build_index: self.bm25 = BM25Okapi(self.documents)
BuildBM25Model(t) ==
    /\ th[t].pc = "bm_model"
    /\ bm25' = BM25Model(bm25, th[t].epoch)
    /\ Set(t, [th[t] EXCEPT !.pc = "set_flag"])
    /\ UNCHANGED <<db, emb_file, faiss_file, faiss, model_loaded,
                   semantic_weight, is_initialized, epochs, init_runs, calls,
                   edits, last, hash_order, loads, dv, fn>>

\* self.is_initialized = True, and the return
SetInitialized(t) ==
    /\ th[t].pc = "set_flag"
    /\ is_initialized' = TRUE
    /\ Set(t, IF th[t].op = "rebuild" THEN Done(th[t], "returned")
              ELSE AfterInitialize(th[t]))
    /\ UNCHANGED <<db, emb_file, faiss_file, faiss, bm25, model_loaded,
                   semantic_weight, epochs, init_runs, calls, edits, last, hash_order, loads, dv, fn>>


(* ---- search() ---- *)

\* `if not self.is_initialized: self.initialize()`
SearchEnsureReady(t) ==
    /\ th[t].pc = "s_init"
    /\ Set(t, IF ~is_initialized
              THEN [th[t] EXCEPT !.pc = "i_load", !.within_search = TRUE]
              ELSE [th[t] EXCEPT !.pc = "s_prep"])
    /\ UNCHANGED <<db, emb_file, faiss_file, faiss, bm25, model_loaded,
                   semantic_weight, is_initialized, epochs, init_runs, calls,
                   edits, last, hash_order, loads, dv, fn>>

\* lines 151-166: clean, extract and merge the filters, expand, and
\* original_weight = self.semantic_weight
SearchPrepare(t) ==
    /\ th[t].pc = "s_prep"
    /\ LET sq == IF th[t].enable_expansion
                 THEN expand_query(clean_query(th[t].query), hash_order)
                 ELSE clean_query(th[t].query)
       IN  Set(t, [th[t] EXCEPT
                     !.pc = "s_setw",
                     !.F = MergeFilters(th[t].explicit,
                                        extract_filters(th[t].query)),
                     !.search_query = sq,
                     !.original_weight = semantic_weight])
    /\ UNCHANGED <<db, emb_file, faiss_file, faiss, bm25, model_loaded,
                   semantic_weight, is_initialized, epochs, init_runs, calls,
                   edits, last, hash_order, loads, dv, fn>>

\* line 167: self.semantic_weight = get_query_vector_weight(clean_query)
SearchSetWeight(t) ==
    /\ th[t].pc = "s_setw"
    /\ semantic_weight' = get_query_vector_weight(clean_query(th[t].query))
    /\ Set(t, [th[t] EXCEPT !.pc = "s_embed"])
    /\ UNCHANGED <<db, emb_file, faiss_file, faiss, bm25, model_loaded,
                   is_initialized, epochs, init_runs, calls, edits, last, hash_order, loads, dv, fn>>

\* line 173: embed_text -> _load_model: the test `self.model is None`;
\* with the model in place, the encoding of the search text
SearchEmbed(t) ==
    /\ th[t].pc = "s_embed"
    /\ Set(t, IF model_loaded
              THEN [th[t] EXCEPT !.pc = "s_sem",
                       !.embed_calls = th[t].embed_calls + 1,
                       !.query_embedding = embed_text(th[t].search_query)]
              ELSE [th[t] EXCEPT !.pc = "s_load",
                       !.embed_calls = th[t].embed_calls + 1])
    /\ UNCHANGED <<db, emb_file, faiss_file, faiss, bm25, model_loaded,
                   semantic_weight, is_initialized, epochs, init_runs, calls,
                   edits, last, hash_order, loads, dv, fn>>

\* a variant of the step below that swallows the failure of the load and
\* lets search() return an empty result
SearchLoadModelSwallow(t) ==
    /\ th[t].pc = "s_load"
    /\ \/ /\ model_loaded' = TRUE
          /\ loads' = [attempts |-> loads.attempts + 1, done |-> loads.done + 1]
          /\ Set(t, [th[t] EXCEPT !.pc = "s_sem",
                        !.query_embedding = embed_text(th[t].search_query)])
       \/ /\ loads' = [loads EXCEPT !.attempts = loads.attempts + 1]
          /\ UNCHANGED model_loaded
          /\ Set(t, Done(th[t], "returned"))
    /\ UNCHANGED <<db, emb_file, faiss_file, faiss, bm25, semantic_weight,
                   is_initialized, epochs, init_runs, calls, edits, last,
                   hash_order, dv, fn>>

\* _load_model inside embed_text: SentenceTransformer(...) succeeds or
\* raises (the exception leaves search() at once)
SearchLoadModel(t) ==
    /\ th[t].pc = "s_load"
    /\ \/ /\ model_loaded' = TRUE
          /\ loads' = [attempts |-> loads.attempts + 1, done |-> loads.done + 1]
          /\ Set(t, [th[t] EXCEPT !.pc = "s_sem",
                        !.query_embedding = embed_text(th[t].search_query)])
       \/ /\ loads' = [loads EXCEPT !.attempts = loads.attempts + 1]
          /\ UNCHANGED model_loaded
          /\ Set(t, Done(th[t], "raised"))
    /\ UNCHANGED <<db, emb_file, faiss_file, faiss, bm25, semantic_weight,
                   is_initialized, epochs, init_runs, calls, edits, last,
                   hash_order, dv, fn>>

\* line 174: semantic_results = self.faiss_manager.search(...)
SearchSemantic(t) ==
    /\ th[t].pc = "s_sem"
    /\ Set(t, [th[t] EXCEPT
                 !.pc = "s_kw",
                 !.query_embedding = {},
                 !.semantic_results = FaissSearch(faiss, th[t].query_embedding,
                                                  FetchK(th[t].top_k)),
                 !.sem_epochs = FaissEpochsRead(faiss)])
    /\ UNCHANGED <<db, emb_file, faiss_file, faiss, bm25, model_loaded,
                   semantic_weight, is_initialized, epochs, init_runs, calls,
                   edits, last, hash_order, loads, dv, fn>>

\* a variant of the step below that embeds the search text a second time
SearchKeywordReembed(t) ==
    /\ th[t].pc = "s_kw"
    /\ Set(t, [th[t] EXCEPT
                 !.pc = "s_fuse",
                 !.embed_calls = th[t].embed_calls + 1,
                 !.keyword_results = BM25Search(bm25, th[t].search_query,
                                                FetchK(th[t].top_k)),
                 !.kw_epochs = BM25EpochsRead(bm25)])
    /\ UNCHANGED <<db, emb_file, faiss_file, faiss, bm25, model_loaded,
                   semantic_weight, is_initialized, epochs, init_runs, calls,
                   edits, last, hash_order, loads, dv, fn>>

\* line 177: keyword_results = self.bm25_engine.search(...)
SearchKeyword(t) ==
    /\ th[t].pc = "s_kw"
    /\ Set(t, [th[t] EXCEPT
                 !.pc = "s_fuse",
                 !.keyword_results = BM25Search(bm25, th[t].search_query,
                                                FetchK(th[t].top_k)),
                 !.kw_epochs = BM25EpochsRead(bm25)])
    /\ UNCHANGED <<db, emb_file, faiss_file, faiss, bm25, model_loaded,
                   semantic_weight, is_initialized, epochs, init_runs, calls,
                   edits, last, hash_order, loads, dv, fn>>

\* line 180: the fusion, which reads self.semantic_weight
SearchFuse(t) ==
    /\ th[t].pc = "s_fuse"
    /\ Set(t, [th[t] EXCEPT
                 !.pc = "s_restore",
                 !.used_weight = semantic_weight,
                 !.semantic_results = <<>>,
                 !.keyword_results = <<>>,
                 !.combined_results =
                     reciprocal_rank_fusion(th[t].semantic_results,
                                            th[t].keyword_results,
                                            semantic_weight)])
    /\ UNCHANGED <<db, emb_file, faiss_file, faiss, bm25, model_loaded,
                   semantic_weight, is_initialized, epochs, init_runs, calls,
                   edits, last, hash_order, loads, dv, fn>>

\* line 183: self.semantic_weight = original_weight
SearchRestoreWeight(t) ==
    /\ th[t].pc = "s_restore"
    /\ semantic_weight' = th[t].original_weight
    /\ Set(t, [th[t] EXCEPT !.pc = "s_fetch"])
    /\ UNCHANGED <<db, emb_file, faiss_file, faiss, bm25, model_loaded,
                   is_initialized, epochs, init_runs, calls, edits, last, hash_order, loads, dv, fn>>

\* lines 186-231: fetch and filter the fused hits, diversify or truncate,
\* and return
SearchFinish(t) ==
    /\ th[t].pc = "s_fetch"
    /\ Set(t, Done([th[t] EXCEPT
                      !.results = FinalResults(
                          FetchAndFilter(th[t].combined_results, db, th[t].F),
                          th[t].top_k, th[t].enable_diversity)],
                   "returned"))
    /\ UNCHANGED <<db, emb_file, faiss_file, faiss, bm25, model_loaded,
                   semantic_weight, is_initialized, epochs, init_runs, calls,
                   edits, last, hash_order, loads, dv, fn>>

Next ==
    \/ \E t \in Threads : StartSearch(t)
    \/ \E t \in Threads : StartRebuild(t)
    \/ \E t \in Threads : StartInitialize(t)
    \/ \E t \in Threads : InitLoad(t)
    \/ \E t \in Threads : InitFaiss(t)
    \/ \E t \in Threads : RebuildRead(t)
    \/ \E t \in Threads : RebuildEmbed(t)
    \/ \E t \in Threads : RebuildLoadModel(t)
    \/ \E t \in Threads : RebuildFaissIndex(t)
    \/ \E t \in Threads : RebuildFaissIds(t)
    \/ \E t \in Threads : BuildBM25Documents(t)
    \/ \E t \in Threads : BuildBM25Model(t)
    \/ \E t \in Threads : SetInitialized(t)
    \/ \E t \in Threads : SearchEnsureReady(t)
    \/ \E t \in Threads : SearchPrepare(t)
    \/ \E t \in Threads : SearchSetWeight(t)
    \/ \E t \in Threads : SearchEmbed(t)
    \/ \E t \in Threads : SearchLoadModel(t)
    \/ \E t \in Threads : SearchSemantic(t)
    \/ \E t \in Threads : SearchKeyword(t)
    \/ \E t \in Threads : SearchFuse(t)
    \/ \E t \in Threads : SearchRestoreWeight(t)
    \/ \E t \in Threads : SearchFinish(t)

\* no single function is under test
FnIdle == [op |-> "idle", pc |-> "idle"]

Init == EngineInit /\ dv = DivIdle /\ fn = FnIdle

\* one caller, its calls advancing statement by statement
SoloNext ==
    \/ StartSearch(1)
    \/ StartRebuild(1)
    \/ StartInitialize(1)
    \/ InitLoad(1)
    \/ InitFaiss(1)
    \/ RebuildRead(1)
    \/ RebuildEmbed(1)
    \/ RebuildLoadModel(1)
    \/ RebuildFaissIndex(1)
    \/ RebuildFaissIds(1)
    \/ BuildBM25Documents(1)
    \/ BuildBM25Model(1)
    \/ SetInitialized(1)
    \/ SearchEnsureReady(1)
    \/ SearchPrepare(1)
    \/ SearchSetWeight(1)
    \/ SearchEmbed(1)
    \/ SearchLoadModel(1)
    \/ SearchSemantic(1)
    \/ SearchKeyword(1)
    \/ SearchFuse(1)
    \/ SearchRestoreWeight(1)
    \/ SearchFinish(1)

SpecSolo == Init /\ [][SoloNext]_vars

\* one caller on an engine over a record store of one document that can be
\* deleted (and put back) at any moment
ReadyInit == Init /\ db = {2}

ReadyNext == SoloNext \/ StoreEdit

SpecReady == ReadyInit /\ [][ReadyNext]_vars

Spec == Init /\ [][Next]_vars


-----------------------------------------------------------------------------
(* The engine under one caller: every call runs from its start to its end   *)
(* before the next one starts, and the record store changes between calls.  *)

\* initialize() as a whole
InitializeOutcome(efile, ffile, f, b, store, epoch) ==
    IF efile # None /\ efile[1].startup_ids # <<>>
    THEN LET f2 == IF ffile # None
                   THEN FaissLoadIndex(f, ffile[1], efile[1].startup_ids, epoch)
                   ELSE FaissBuildIndex(f, efile[1].embeddings,
                                        efile[1].startup_ids, epoch)
         IN  [faiss |-> f2,
              faiss_file |-> IF ffile # None \/ f2.index = None THEN ffile
                             ELSE Some(f2.index[1]),
              bm25 |-> BM25BuildIndex(b, get_all_startups(store), epoch),
              ready |-> TRUE]
    ELSE [faiss |-> f, faiss_file |-> ffile, bm25 |-> b, ready |-> FALSE]

InitializeCall(bound) ==
    /\ last.op = "none"
    /\ calls < bound
    /\ calls' = calls + 1
    /\ init_runs' = init_runs + 1
    /\ LET o == InitializeOutcome(emb_file, faiss_file, faiss, bm25, db,
                                  epochs + 1)
       IN  /\ faiss' = o.faiss
           /\ faiss_file' = o.faiss_file
           /\ bm25' = o.bm25
           /\ is_initialized' = (is_initialized \/ o.ready)
           /\ epochs' = IF o.ready THEN epochs + 1 ELSE epochs
    /\ last' = [op |-> "initialize", ret |-> "returned"]
    /\ UNCHANGED <<db, emb_file, model_loaded, semantic_weight, th, edits, hash_order, loads, dv, fn>>

\* rebuild_index() as a whole; load_ok is whether the embedding model loads
RebuildCall(bound) ==
    /\ last.op = "none"
    /\ calls < bound
    /\ calls' = calls + 1
    /\ LET startups == get_all_startups(db) IN
       \E load_ok \in BOOLEAN :
         /\ model_loaded => load_ok
         /\ IF startups = <<>>
            THEN /\ load_ok
                 /\ last' = [op |-> "rebuild", ret |-> "returned",
                             startups |-> startups]
                 /\ UNCHANGED <<emb_file, faiss_file, faiss, bm25,
                                model_loaded, is_initialized, epochs, loads>>
            ELSE IF ~load_ok
            THEN /\ last' = [op |-> "rebuild", ret |-> "raised",
                             startups |-> startups]
                 /\ epochs' = epochs + 1
                 /\ loads' = [loads EXCEPT !.attempts = loads.attempts + 1]
                 /\ UNCHANGED <<emb_file, faiss_file, faiss, bm25,
                                model_loaded, is_initialized>>
            ELSE /\ model_loaded' = TRUE
                 /\ loads' = IF model_loaded THEN loads
                             ELSE [attempts |-> loads.attempts + 1,
                                   done |-> loads.done + 1]
                 /\ epochs' = epochs + 1
                 /\ emb_file' = Some([embeddings |-> embed_startups(startups),
                                      startup_ids |-> startups])
                 /\ faiss' = FaissBuildIndex(faiss, embed_startups(startups),
                                             startups, epochs + 1)
                 /\ faiss_file' = IF faiss'.index = None THEN faiss_file
                                  ELSE Some(faiss'.index[1])
                 /\ bm25' = BM25BuildIndex(bm25, startups, epochs + 1)
                 /\ is_initialized' = TRUE
                 /\ last' = [op |-> "rebuild", ret |-> "returned",
                             startups |-> startups]
    /\ UNCHANGED <<db, semantic_weight, init_runs, th, edits, hash_order, dv, fn>>

\* inputs of search()
Queries ==
    { <<"solar">>, <<"like", "solar">>, <<"Named", "wind">>,
      <<"solar", "after", "2020">>, <<"wind", "before", "2022">>,
      <<"raised", "over", "$", "2", "m">>, <<"funding", "0", "wind">>,
      <<"solar", "bus">>, <<"clean", "energy", "?">> }

TopKs == {None} \cup {Some(k) : k \in 1..MaxTopK}

FilterValues ==
    [vertical : {None, Some(""), Some("transport")},
     founded_year_min : {None, Some(0), Some(2020)},
     founded_year_max : {None, Some(2020), Some(MissingYearHigh)},
     min_funding_usd : {None, Some(0), Some(2 * Million)}]

ExplicitFilters ==
    {F \in FilterValues :
        Cardinality({k \in {"vertical", "founded_year_min", "founded_year_max",
                            "min_funding_usd"} : F[k] # None}) <= MaxExplicit}

\* search() as a whole, its arguments drawn from the given sets
SearchCall(bound, queries, top_ks, explicits) ==
    /\ last.op = "none"
    /\ calls < bound
    /\ calls' = calls + 1
    /\ \E query \in queries, top_k_arg \in top_ks, explicit \in explicits,
          enable_diversity \in BOOLEAN, enable_expansion \in BOOLEAN,
          load_ok \in BOOLEAN :
         LET top_k == EffectiveTopK(top_k_arg)
             o == IF is_initialized
                  THEN [faiss |-> faiss, faiss_file |-> faiss_file,
                        bm25 |-> bm25, ready |-> FALSE]
                  ELSE InitializeOutcome(emb_file, faiss_file, faiss, bm25, db,
                                         epochs + 1)
             clean == clean_query(query)
             F == MergeFilters(explicit, extract_filters(query))
             w == get_query_vector_weight(clean)
             fetch_k == FetchK(top_k)
         IN
         /\ model_loaded => load_ok
         /\ loads' = IF model_loaded THEN loads
                     ELSE [attempts |-> loads.attempts + 1,
                           done |-> loads.done + (IF load_ok THEN 1 ELSE 0)]
         /\ init_runs' = IF is_initialized THEN init_runs ELSE init_runs + 1
         /\ epochs' = IF o.ready THEN epochs + 1 ELSE epochs
         /\ faiss' = o.faiss
         /\ faiss_file' = o.faiss_file
         /\ bm25' = o.bm25
         /\ is_initialized' = (is_initialized \/ o.ready)
         /\ LET search_query == IF enable_expansion
                                 THEN expand_query(clean, hash_order)
                                 ELSE clean
            IN
              IF ~load_ok
              THEN /\ model_loaded' = model_loaded
                   /\ semantic_weight' = w
                   /\ last' = [op |-> "search", ret |-> "raised",
                               query |-> query, explicit |-> explicit]
              ELSE LET sem == FaissSearch(o.faiss, embed_text(search_query),
                                          fetch_k)
                       kw == BM25Search(o.bm25, search_query, fetch_k)
                       combined == reciprocal_rank_fusion(sem, kw, w)
                       filtered == FetchAndFilter(combined, db, F)
                       results == FinalResults(filtered, top_k, enable_diversity)
                   IN  /\ model_loaded' = TRUE
                       /\ semantic_weight' = semantic_weight
                       /\ last' = [op |-> "search", ret |-> "returned",
                                   query |-> query, explicit |-> explicit,
                                   top_k |-> top_k,
                                   enable_diversity |-> enable_diversity,
                                   enable_expansion |-> enable_expansion,
                                   expanded_query |->
                                       IF enable_expansion
                                       THEN Some(search_query) ELSE None,
                                   used_weight |-> w,
                                   semantic_results |-> sem,
                                   keyword_results |-> kw,
                                   combined_results |-> combined,
                                   store |-> db,
                                   results |-> results,
                                   total_results |-> Len(results),
                                   filters_applied |-> F]
    /\ UNCHANGED <<db, emb_file, th, edits, hash_order, dv, fn>>

\* the caller has taken the result of the call; the next call may start
ReturnToCaller ==
    /\ last.op # "none"
    /\ last' = [op |-> "none"]
    /\ UNCHANGED <<db, emb_file, faiss_file, faiss, bm25, model_loaded,
                   semantic_weight, is_initialized, epochs, init_runs, th,
                   calls, edits, hash_order, loads, dv, fn>>

\* the life of one engine: any calls in sequence, plain searches
SeqNext ==
    \/ StoreEdit
    \/ ReturnToCaller
    \/ InitializeCall(MaxSeqCalls)
    \/ RebuildCall(MaxSeqCalls)
    \/ SearchCall(MaxSeqCalls, ConcQueries, {None}, {NoFilters})

SpecSeq == Init /\ [][SeqNext]_vars

\* searches with every argument, on an engine over a full record store
QueryInit == Init /\ db = DocIds /\ emb_file = None

QueryNext ==
    \/ StoreEdit
    \/ ReturnToCaller
    \/ RebuildCall(MaxQueryCalls)
    \/ SearchCall(MaxQueryCalls, Queries, TopKs, ExplicitFilters)

SpecQuery == QueryInit /\ [][QueryNext]_vars

\* searches over an index that the record store has moved away from
StaleNext ==
    \/ StoreEdit
    \/ ReturnToCaller
    \/ RebuildCall(MaxStaleCalls)
    \/ SearchCall(MaxStaleCalls, Queries, {None, Some(1)}, {NoFilters})

SpecStale == QueryInit /\ [][StaleNext]_vars

\* an engine that only serves as the receiver of a function under test
EngineAtRest ==
    /\ EngineInit /\ db = DocIds /\ emb_file = None
    /\ hash_order = CHOOSE o \in HashOrders : TRUE
    /\ dv = DivIdle

\* best-first candidate lists: distinct ids, as both indices return them
FuseLists ==
    {l \in UNION {[1..n -> DocIds] : n \in 0..MaxFuseLen} :
        \A i, j \in 1..Len(l) : i # j => l[i] # l[j]}

\* values of self.semantic_weight, in tenths
FuseWeights == 0..10

\* _reciprocal_rank_fusion alone; semantic_weight is the value of
\* self.semantic_weight when it runs
FuseInit ==
    /\ EngineAtRest
    /\ \E sem \in FuseLists, kw \in FuseLists, w \in FuseWeights :
         fn = [op |-> "fuse", pc |-> "ready", semantic_results |-> sem,
               keyword_results |-> kw, semantic_weight |-> w, out |-> <<>>]

FuseCall ==
    /\ fn.op = "fuse" /\ fn.pc = "ready"
    /\ fn' = [fn EXCEPT !.pc = "done",
                        !.out = reciprocal_rank_fusion(fn.semantic_results,
                                    fn.keyword_results, fn.semantic_weight)]
    /\ UNCHANGED <<engineVars, dv>>

SpecFuse == FuseInit /\ [][FuseCall]_vars

\* filter sets as search() has them after merging its arguments with the
\* filters read from the query: none, and one constraint of each kind; the
\* latest founding year 2022 is failed only by the document without a
\* founding year
RankFilters ==
    {NoFilters,
     [NoFilters EXCEPT !.vertical = Some("transport")],
     [NoFilters EXCEPT !.founded_year_min = Some(2020)],
     [NoFilters EXCEPT !.founded_year_max = Some(2022)],
     [NoFilters EXCEPT !.min_funding_usd = Some(2 * Million)]}

\* the weight search() fuses with when the query has no indicator word
RankWeights == {DefaultQueryWeight}

\* search() from the fusion of the two index answers to its result, alone:
\* the answers of faiss_manager.search and bm25_engine.search (which take
\* the search text and fetch_k only), the weight, the merged filter set,
\* top_k and enable_diversity are drawn here
RankInit ==
    /\ EngineAtRest
    /\ \E sem \in FuseLists, kw \in FuseLists, w \in RankWeights,
          F \in RankFilters, top_k \in {DefaultTopK, MaxTopK},
          enable_diversity \in BOOLEAN :
         fn = [op |-> "rank", pc |-> "ready", semantic_results |-> sem,
               keyword_results |-> kw, semantic_weight |-> w, F |-> F,
               top_k |-> top_k, enable_diversity |-> enable_diversity,
               combined_results |-> <<>>, filtered |-> <<>>, results |-> <<>>]

RankCall ==
    /\ fn.op = "rank" /\ fn.pc = "ready"
    /\ LET combined == reciprocal_rank_fusion(fn.semantic_results,
                            fn.keyword_results, fn.semantic_weight)
           filtered == FetchAndFilter(combined, db, fn.F)
       IN  fn' = [fn EXCEPT !.pc = "done",
                            !.combined_results = combined,
                            !.filtered = filtered,
                            !.results = FinalResults(filtered, fn.top_k,
                                                     fn.enable_diversity)]
    /\ UNCHANGED <<engineVars, dv>>

SpecRank == RankInit /\ [][RankCall]_vars

\* A FaissManager on its own, with the index file it reads and writes. The
\* embedding matrices are those of embed_startups for a list of ids, in the
\* dimension of the configured model or of another model; owners (history
\* only) lists the ids whose vectors the index holds, in index order.
FaissDims == {EmbeddingDim, 384}

FaissIdLists == { <<>>, <<2>>, <<1, 2, 3>> }

FaissFiles ==
    {None} \cup
    {Some([vectors |-> embed_startups(ids), d |-> d, owners |-> ids]) :
        ids \in FaissIdLists \ {<<>>}, d \in FaissDims}

\* FaissManager.__init__, and the index file as an earlier process left it
FaissInit ==
    /\ EngineAtRest
    /\ \E file \in FaissFiles, dim \in FaissDims :
         fn = [op |-> "faiss", n |-> 0, f |-> FaissNew, embedding_dim |-> dim,
               owners |-> <<>>, file |-> file, call |-> [name |-> "none"]]

FaissCanCall == fn.op = "faiss" /\ fn.n < MaxFaissCalls

\* build_index(embeddings, startup_ids)
FaissBuildCall ==
    /\ FaissCanCall
    /\ \E ids \in FaissIdLists, d \in FaissDims :
         LET embeddings == embed_startups(ids) IN
         fn' = [fn EXCEPT
                  !.n = fn.n + 1,
                  !.f = FaissBuildIndex(fn.f, embeddings, ids, fn.n + 1),
                  !.embedding_dim = IF Len(embeddings) = 0 THEN fn.embedding_dim
                                    ELSE d,
                  !.owners = IF Len(embeddings) = 0 THEN fn.owners ELSE ids,
                  !.call = [name |-> "build_index", rows |-> Len(embeddings),
                            pre_f |-> fn.f]]
    /\ UNCHANGED <<engineVars, dv>>

\* save_index()
FaissSaveCall ==
    /\ FaissCanCall
    /\ fn' = [fn EXCEPT
                !.n = fn.n + 1,
                !.file = IF fn.f.index = None THEN fn.file
                         ELSE Some([vectors |-> fn.f.index[1],
                                    d |-> fn.embedding_dim,
                                    owners |-> fn.owners]),
                !.call = [name |-> "save_index"]]
    /\ UNCHANGED <<engineVars, dv>>

\* load_index(startup_ids=...): startup_ids None or empty is <<>>
FaissLoadCall ==
    /\ FaissCanCall
    /\ \E startup_ids \in FaissIdLists :
         LET call == [name |-> "load_index", startup_ids |-> startup_ids,
                      pre_f |-> fn.f, pre_dim |-> fn.embedding_dim,
                      file |-> fn.file]
         IN
         IF fn.file = None
         THEN fn' = [fn EXCEPT !.n = fn.n + 1,
                               !.call = [call EXCEPT !.name = "load_index"]
                                          @@ [ret |-> FALSE]]
         ELSE fn' = [fn EXCEPT
                       !.n = fn.n + 1,
                       !.f = FaissLoadIndex(fn.f, fn.file[1].vectors,
                                            startup_ids, fn.n + 1),
                       !.embedding_dim = fn.file[1].d,
                       !.owners = fn.file[1].owners,
                       !.call = call @@ [ret |-> TRUE]]
    /\ UNCHANGED <<engineVars, dv>>

\* search(query_embedding, top_k) with the vector of a one-word text in the
\* dimension qd; IndexFlatIP.search rejects a vector of another dimension
FaissSearchCall ==
    /\ FaissCanCall
    /\ \E w \in {"solar", "wind"}, qd \in FaissDims, top_k \in {1, DefaultTopK} :
         LET empty == fn.f.index = None \/ Len(fn.f.index[1]) = 0
             raised == ~empty /\ qd # fn.embedding_dim
         IN
         fn' = [fn EXCEPT
                  !.n = fn.n + 1,
                  !.call = [name |-> "search", top_k |-> top_k,
                            ret |-> IF raised THEN "raised" ELSE "returned",
                            out |-> IF raised THEN <<>>
                                    ELSE FaissSearch(fn.f, embed_text(<<w>>),
                                                     top_k)]]
    /\ UNCHANGED <<engineVars, dv>>

FaissNext ==
    \/ FaissBuildCall
    \/ FaissSaveCall
    \/ FaissLoadCall
    \/ FaissSearchCall

SpecFaiss == FaissInit /\ [][FaissNext]_vars

\* The candidate step of search() on its own: top_k resolved, fetch_k
\* computed, both indices queried and the answers fused. The indices are
\* drawn here and can hold more entries than fetch_k: a vector index of
\* n_sem vectors with the ids 1..n_sem and a keyword index of n_kw documents
\* with ids from first_kw on (first_kw = 1: the same documents; beyond
\* n_sem: other documents). Fused scores of ranks beyond Len(Catalog) are
\* rounded down by RankContribution.
CandidateFaiss(n) ==
    FaissBuildIndex(FaissNew,
                    [i \in 1..n |-> IF i % 2 = 0 THEN {"solar"} ELSE {"solar", "wind"}],
                    [i \in 1..n |-> i], 1)

CandidateBM25(n, first) ==
    LET docs == [i \in 1..n |-> IF i % 2 = 0 THEN <<"solar", "energy">>
                                ELSE <<"solar", "solar", "wind">>]
    IN  BM25Model([BM25New EXCEPT !.documents = docs,
                                  !.startup_ids = [i \in 1..n |-> first + i - 1],
                                  !.depoch = 1], 1)

CandidateTopKs == {None, Some(1), Some(MaxTopK), Some(40), Some(41)}

CandidatesInit ==
    /\ EngineAtRest
    /\ \E n_sem \in 0..MaxIndexSize, n_kw \in 0..MaxIndexSize,
          first_kw \in {1, MaxIndexSize + 2},
          top_k \in CandidateTopKs, query \in {<<"solar">>, <<"x">>} :
         fn = [op |-> "candidates", pc |-> "ready",
               f |-> CandidateFaiss(n_sem), b |-> CandidateBM25(n_kw, first_kw),
               query |-> query, top_k_arg |-> top_k, top_k |-> 0, fetch_k |-> 0,
               semantic_results |-> <<>>, keyword_results |-> <<>>,
               combined_results |-> <<>>]

CandidatesCall ==
    /\ fn.op = "candidates" /\ fn.pc = "ready"
    /\ LET top_k == EffectiveTopK(fn.top_k_arg)
           fetch_k == FetchK(top_k)
           sem == FaissSearch(fn.f, embed_text(fn.query), fetch_k)
           kw == BM25Search(fn.b, fn.query, fetch_k)
       IN  fn' = [fn EXCEPT !.pc = "done", !.top_k = top_k,
                            !.fetch_k = fetch_k,
                            !.semantic_results = sem,
                            !.keyword_results = kw,
                            !.combined_results =
                                reciprocal_rank_fusion(sem, kw,
                                    get_query_vector_weight(fn.query))]
    /\ UNCHANGED <<engineVars, dv>>

SpecCandidates == CandidatesInit /\ [][CandidatesCall]_vars

\* words of the queries handed to the query processor alone
TextTokens ==
    {"clean", "energy", "transport", "solar", "bus", "like", "Named",
     "technology", "for", "x", "Solar"}

TextQueries == UNION {[1..n -> TextTokens] : n \in 0..MaxQueryLen}

\* values of settings.semantic_weight: the default, and one set through the
\* environment (Settings is a BaseSettings)
SettingsWeights == {5, DefaultSemanticWeight}

\* the QueryProcessor alone: one of its methods applied to a query
TextInit ==
    /\ EngineInit /\ db = DocIds /\ emb_file = None /\ dv = DivIdle
    /\ \E query \in TextQueries, sw \in SettingsWeights :
         fn = [op |-> "query_processor", pc |-> "ready", query |-> query,
               settings_semantic_weight |-> sw, out |-> <<>>]

ExtractFiltersCall ==
    /\ fn.op = "query_processor" /\ fn.pc = "ready"
    /\ fn' = [fn EXCEPT !.op = "extract_filters", !.pc = "done",
                        !.out = extract_filters(fn.query)]
    /\ UNCHANGED <<engineVars, dv>>

WeightCall ==
    /\ fn.op = "query_processor" /\ fn.pc = "ready"
    /\ fn' = [fn EXCEPT !.op = "get_query_vector_weight", !.pc = "done",
                        !.out = get_query_vector_weight(fn.query)]
    /\ UNCHANGED <<engineVars, dv>>

\* expand_query in a process whose string hashing enumerates sets in the
\* order hash_order
ExpandCall ==
    /\ fn.op = "query_processor" /\ fn.pc = "ready"
    /\ fn' = [fn EXCEPT !.op = "expand_query", !.pc = "done",
                        !.out = expand_query(fn.query, hash_order)]
    /\ UNCHANGED <<engineVars, dv>>

TextNext == ExtractFiltersCall \/ WeightCall \/ ExpandCall

SpecText == TextInit /\ [][TextNext]_vars

\* the diversifier alone
DivInit ==
    /\ EngineInit /\ db = DocIds /\ emb_file = None
    /\ hash_order = CHOOSE o \in HashOrders : TRUE
    /\ fn = FnIdle
    /\ \E results \in DivHitLists,
          total_results \in {None} \cup {Some(n) : n \in 0..MaxTotal},
          max_per_vertical \in {None} \cup {Some(n) : n \in 0..MaxPer} :
         dv = [pc |-> "ready", results |-> results,
               total_results |-> total_results,
               max_per_vertical |-> max_per_vertical, rr |-> <<>>,
               out |-> <<>>]

SpecDiv == DivInit /\ [][DiversifyCall]_vars

-----------------------------------------------------------------------------
(* Properties                                                               *)

\* a call of thread t has finished and returned a value
Returned(t, op) ==
    th[t].op = op /\ th[t].pc = "done" /\ th[t].ret = "returned"

\* the positions of rebuild_index() at which it builds or installs an index
BuildSteps == {"r_embed", "r_load", "r_findex", "r_fids", "bm_docs", "bm_model", "set_flag"}

\* C1 (rebuild atomicity): every search that returned while a rebuild_index()
\* ran on the other thread read its vector index, its id mapping and its
\* keyword index out of one and the same build (or all of them never built)
C1_RebuildAtomicity ==
    \A t \in Threads :
        (Returned(t, "search") /\ \E u \in Threads : th[u].op = "rebuild")
            => Cardinality(th[t].sem_epochs \cup th[t].kw_epochs) <= 1

\* C2 (fusion-weight independence): the weight a search() used in its
\* reciprocal-rank fusion is the weight computed from that call's own query
C2_WeightIndependence ==
    \A t \in Threads :
        Returned(t, "search")
            => th[t].used_weight = get_query_vector_weight(clean_query(th[t].query))

\* C3 (one-time initialization): when the only calls on the engine are
\* search() calls, one per thread, the body of initialize() has run at most
\* once
C3_InitializeOnce ==
    (/\ \A t \in Threads : th[t].op \in {"idle", "search"}
     /\ calls = Cardinality({t \in Threads : th[t].op # "idle"}))
        => init_runs <= 1

\* C4 (rebuild mutual exclusion): at most one rebuild_index() is inside its
\* build steps at any time
C4_RebuildExclusion ==
    Cardinality({t \in Threads :
                    th[t].op = "rebuild" /\ th[t].pc \in BuildSteps}) <= 1

FilterFields ==
    {"vertical", "founded_year_min", "founded_year_max", "min_funding_usd"}

\* C5 (explicit over implicit): in a returned search(), each filter the caller
\* passed (any value but None) is the filter applied and echoed
C5_ExplicitPrecedence ==
    (last.op = "search" /\ last.ret = "returned")
        => \A k \in FilterFields :
              last.explicit[k] # None => last.filters_applied[k] = last.explicit[k]

\* the bucket a hit falls in: its category, or None for the hits without one
BucketOf(h) == IF TruthyStr(h.vertical) THEN h.vertical ELSE None

Buckets == {None, Some("energy"), Some("transport")}

CountIn(hits, b) == Cardinality({i \in 1..Len(hits) : BucketOf(hits[i]) = b})

\* the arguments of the call as the caller means them: an absent total is the
\* whole list, an absent cap is the configured one
StatedTotal ==
    IF dv.total_results = None THEN Len(dv.results) ELSE dv.total_results[1]

StatedCap ==
    IF dv.max_per_vertical = None THEN MaxResultsPerVertical
    ELSE dv.max_per_vertical[1]

RECURSIVE SumCapped(_, _)
SumCapped(S, cap) ==
    IF S = {} THEN 0
    ELSE LET b == CHOOSE x \in S : TRUE
         IN  Min(CountIn(dv.results, b), cap) + SumCapped(S \ {b}, cap)

\* C6 (diversification bound): the output of diversify holds more than
\* max_per_category hits of one bucket only if the round-robin phase ended
\* with fewer than total hits; and when the buckets can supply total hits
\* under the cap, no bucket has more than max_per_category hits in the output
C6_DiversificationBound ==
    dv.pc = "done"
        => /\ \A b \in Buckets :
                CountIn(dv.out, b) > StatedCap => Len(dv.rr) < StatedTotal
           /\ SumCapped(Buckets, StatedCap) >= StatedTotal
                => \A b \in Buckets : CountIn(dv.out, b) <= StatedCap

IdsOf(hits) == {hits[i].id : i \in 1..Len(hits)}

\* C7 (diversifier output size): diversify returns exactly
\* min(total, number of input hits) hits, and when round-robin emitted fewer
\* than total the output is the round-robin hits followed by the hits not yet
\* emitted, in input order, cut at total
C7_DiversifierSize ==
    dv.pc = "done"
        => /\ Len(dv.out) = Min(StatedTotal, Len(dv.results))
           /\ Len(dv.rr) < StatedTotal
                => dv.out = Take(dv.rr \o SelectSeq(dv.results,
                                     LAMBDA h : h.id \notin IdsOf(dv.rr)),
                                 StatedTotal)

\* a document satisfies every filter of F that is set, a missing year or
\* funding satisfying no bound
Satisfies(doc, F) ==
    /\ F.vertical # None => doc.primary_vertical = F.vertical
    /\ F.founded_year_min # None
         => doc.founded_year # None /\ doc.founded_year[1] >= F.founded_year_min[1]
    /\ F.founded_year_max # None
         => doc.founded_year # None /\ doc.founded_year[1] <= F.founded_year_max[1]
    /\ F.min_funding_usd # None
         => doc.total_funding_usd # None
            /\ doc.total_funding_usd[1] >= F.min_funding_usd[1]

\* C8 (post-fusion filter soundness): every hit a search() returns satisfies
\* every filter of the merged filter set that is set
C8_FilterSoundness ==
    (last.op = "search" /\ last.ret = "returned")
        => \A i \in 1..Len(last.results) :
              Satisfies(Catalog[last.results[i].id], last.filters_applied)

\* the fused hits that are in the record store and that no filter drops
Resolving(combined, store, F) ==
    SelectSeq(combined,
              LAMBDA h : h.id \in store /\ PassesFilters(Catalog[h.id], F))

IdSeq(hits) == [i \in 1..Len(hits) |-> hits[i].id]

\* C9 (stale-id tolerance): a search() never raises because of a fused id
\* missing from the record store (it raises only when the embedding model
\* fails to load), and it returns the fused hits that resolve and pass the
\* filters: all of them up to top_k, in fused order when diversification is
\* off, and min(top_k, their number) of them when it is on
C9_StaleIdTolerance ==
    /\ (last.op = "search" /\ last.ret = "raised") => ~model_loaded
    /\ (last.op = "search" /\ last.ret = "returned")
        => LET good == Resolving(last.combined_results, last.store,
                                 last.filters_applied)
           IN  /\ Len(last.results) = Min(last.top_k, Len(good))
               /\ IdsOf(last.results) \subseteq IdsOf(good)
               /\ ~last.enable_diversity
                    => IdSeq(last.results) = Take(IdSeq(good), last.top_k)

\* a returned search whose fused list holds an id missing from the record
\* store, followed by a fused hit that is in the result
C9_Witness ==
    /\ last.op = "search" /\ last.ret = "returned"
    /\ \E i, j \in 1..Len(last.combined_results) :
          /\ i < j
          /\ last.combined_results[i].id \notin last.store
          /\ last.combined_results[j].id \in IdsOf(last.results)

\* C10 (empty-index resilience): after rebuild_index() ran over an empty
\* record store, whatever the engine held before, the vector index and the
\* keyword index return an empty list for every query
C10_EmptyIndex ==
    (last.op = "rebuild" /\ last.ret = "returned" /\ last.startups = <<>>)
        => \A q \in Queries :
              /\ FaissSearch(faiss, embed_text(clean_query(q)),
                             FetchK(DefaultTopK)) = <<>>
              /\ BM25Search(bm25, clean_query(q), FetchK(DefaultTopK)) = <<>>

Fused == fn.op = "fuse" /\ fn.pc = "done"

\* 1-based position of id in a list without repetition, 0 when absent
PosIn(list, id) ==
    IF \E i \in 1..Len(list) : list[i] = id
    THEN CHOOSE i \in 1..Len(list) : list[i] = id ELSE 0

\* weight / (k + rank + 1) for the 0-based rank of id in list, 0 when id is
\* absent, in the units of the fused scores
Share(list, id, weight) ==
    IF PosIn(list, id) = 0 THEN 0
    ELSE weight * (RRFScale \div (RRFK + (PosIn(list, id) - 1) + 1))

SemKey(id) ==
    IF PosIn(fn.semantic_results, id) = 0 THEN Len(fn.semantic_results) + 1
    ELSE PosIn(fn.semantic_results, id)

\* C12 (RRF tie-break): two ids with equal fused scores come out with the
\* better semantic rank first and, at equal semantic rank, the lower id first
C12_RRFTieBreak ==
    Fused
        => \A i, j \in 1..Len(fn.out) :
              (i < j /\ fn.out[i].score = fn.out[j].score)
                 => \/ SemKey(fn.out[i].id) < SemKey(fn.out[j].id)
                    \/ /\ SemKey(fn.out[i].id) = SemKey(fn.out[j].id)
                       /\ fn.out[i].id < fn.out[j].id

\* the vertical's display name or one of its keywords occurs in the
\* lowercased query
VerticalMatches(v, q) ==
    \/ Occurs(Lower(v.name), q)
    \/ \E k \in 1..Len(v.keywords) : Occurs(Lower(v.keywords[k]), q)

\* C13 (vertical extraction): extract_filters sets vertical_filter to the
\* first vertical of the taxonomy whose name or one of whose keywords occurs
\* in the lowercased query, and leaves it out when none does
C13_VerticalExtraction ==
    (fn.op = "extract_filters" /\ fn.pc = "done")
        => LET q == Lower(fn.query)
               M == {i \in 1..Len(Verticals) : VerticalMatches(Verticals[i], q)}
           IN  fn.out.vertical_filter =
                   IF M = {} THEN None
                   ELSE Some(Verticals[CHOOSE i \in M : \A j \in M : i <= j].id)

\* C14 (weight selection): the weight is 0.7 if a conceptual phrase occurs in
\* the query, else 0.4 if a specific phrase occurs, else the semantic weight
\* configured in the settings; it is one of these three and lies in [0, 1]
C14_WeightSelection ==
    (fn.op = "get_query_vector_weight" /\ fn.pc = "done")
        => LET q == Lower(fn.query) IN
           /\ fn.out = IF \E x \in ConceptualIndicators : Occurs(x, q)
                       THEN ConceptualWeight
                       ELSE IF \E x \in SpecificIndicators : Occurs(x, q)
                       THEN SpecificWeight
                       ELSE fn.settings_semantic_weight
           /\ fn.out \in {ConceptualWeight, SpecificWeight,
                          fn.settings_semantic_weight}
           /\ fn.out >= 0 /\ fn.out <= 10

\* the positions of search() before / at / after its two index queries
BeforeQueries == {"s_init", "i_load", "i_faiss", "bm_docs", "bm_model",
                  "set_flag", "s_prep", "s_setw", "s_embed", "s_load"}

AfterEnsureReady == {"s_prep", "s_setw", "s_embed", "s_load", "s_sem", "s_kw",
                     "s_fuse", "s_restore", "s_fetch"}

\* C15 (single embedding per search): a search() invokes the embedder at most
\* once, on the search text, and before it queries either index; a search
\* that returned invoked it exactly once, whatever the number of its hits
C15_SingleEmbedding ==
    \A t \in Threads :
        th[t].op = "search"
            => /\ th[t].embed_calls <= 1
               /\ th[t].pc = "s_sem"
                    => /\ th[t].embed_calls = 1
                       /\ th[t].query_embedding = embed_text(th[t].search_query)
               /\ th[t].embed_calls = 0
                    => th[t].sem_epochs = {} /\ th[t].kw_epochs = {}
               /\ th[t].pc \in BeforeQueries
                    => th[t].sem_epochs = {} /\ th[t].kw_epochs = {}
               /\ Returned(t, "search") => th[t].embed_calls = 1

\* a search that returned several hits
C15_Witness ==
    \E t \in Threads :
        Returned(t, "search") /\ Len(th[t].results) >= 2 /\ th[t].embed_calls = 1

\* C16 (missing snapshot leads to rebuild): once a search() is past its
\* ensure-Ready step the engine is initialized
C16_MissingSnapshotRebuild ==
    \A t \in Threads :
        (th[t].op = "search" /\ th[t].pc \in AfterEnsureReady) => is_initialized

\* C17 (embedding failure is surfaced and retryable): a load of the model
\* that fails inside a search() ends that call with the error raised and
\* leaves the model not loaded; a search() that needs the embedding while the
\* model is not loaded attempts the load
C17_EmbeddingFailure ==
    /\ [](\A t \in Threads :
             (th[t].op = "search" /\ th[t].pc = "done" /\ th[t].ret = "raised")
                => th[t].results = <<>>)
    /\ [][\A t \in Threads :
             /\ (th[t].op = "search" /\ th[t].pc = "s_load"
                 /\ loads'.attempts = loads.attempts + 1 /\ loads'.done = loads.done)
                  => /\ th'[t].pc = "done" /\ th'[t].ret = "raised"
                     /\ model_loaded' = model_loaded
             /\ (th[t].op = "search" /\ th[t].pc = "s_embed" /\ ~model_loaded
                 /\ th'[t] # th[t])
                  => th'[t].pc = "s_load"
             /\ (th[t].op = "search" /\ th[t].pc = "s_load" /\ th'[t] # th[t])
                  => loads'.attempts = loads.attempts + 1]_vars

\* a search that returned hits on a load that succeeded after an earlier load
\* had failed
C17_Witness ==
    /\ loads.attempts >= 2 /\ loads.done = 1
    /\ \E t \in Threads : Returned(t, "search") /\ th[t].results # <<>>

\* C18 (model loads exactly once): the model of one Embedder is loaded
\* successfully at most once
C18_ModelLoadsOnce == loads.done <= 1

\* the record store's ids at the time of the last rebuild: those the
\* rebuild_index() just completed has read, or those of the persisted id
\* mapping that initialize() has loaded
LastRebuildIds ==
    IF last.op = "rebuild" THEN Range(last.startups)
    ELSE IF emb_file = None THEN {}
    ELSE Range(emb_file[1].startup_ids)

\* C19 (same id universe): after a completed initialize() or rebuild_index()
\* that leaves the engine initialized, the vector index and the keyword index
\* hold the same ids, those of the record store at the last rebuild
C19_SameIdUniverse ==
    (last.op \in {"initialize", "rebuild"} /\ last.ret = "returned"
     /\ is_initialized)
        => /\ Range(faiss.startup_ids) = Range(bm25.startup_ids)
           /\ Range(faiss.startup_ids) = LastRebuildIds

\* the (document id, fused score) pairs of a list of hits
FusedPart(hits) ==
    [i \in 1..Len(hits) |-> [id |-> hits[i].id, score |-> hits[i].score]]

\* the entries of the fused ranking whose id is in ids, in fused order
KeptOf(combined, ids) == SelectSeq(combined, LAMBDA h : h.id \in ids)

PosOf(hits, id) == CHOOSE i \in 1..Len(hits) : hits[i].id = id

\* the hits that two lists share are in the same relative order in both
SameOrder(hits1, hits2) ==
    \A a, b \in IdsOf(hits1) \cap IdsOf(hits2) :
        (PosOf(hits1, a) < PosOf(hits1, b)) <=> (PosOf(hits2, a) < PosOf(hits2, b))

\* the hits kept from the fused ranking of the call when its filter set is F
KeptUnder(F) == FetchAndFilter(fn.combined_results, db, F)

\* what the call returns when its filter set is F
ResultsUnder(F) == FinalResults(KeptUnder(F), fn.top_k, fn.enable_diversity)

\* the fused ranking is the fusion of the two unfiltered index answers; the
\* kept hits are entries of it, with their fused scores and in fused order,
\* under the filter set of the call and under every other one; every
\* returned hit is a kept hit
FusionIgnoresFilters ==
    /\ fn.combined_results =
           reciprocal_rank_fusion(fn.semantic_results, fn.keyword_results,
                                  fn.semantic_weight)
    /\ IdsOf(fn.combined_results) =
           Range(fn.semantic_results) \cup Range(fn.keyword_results)
    /\ FusedPart(fn.filtered) = KeptOf(fn.combined_results, IdsOf(fn.filtered))
    /\ Range(fn.results) \subseteq Range(fn.filtered)
    /\ \A F \in RankFilters :
          /\ FusedPart(KeptUnder(F)) =
                 KeptOf(fn.combined_results, IdsOf(KeptUnder(F)))
          /\ Range(ResultsUnder(F)) \subseteq Range(KeptUnder(F))

\* C20 (filters act only after fusion), as amended: both index answers are
\* fused without any filter, so the fused score of a returned hit and the
\* relative order of two hits in the fused ranking are the same for every
\* filter set; the filter set only decides which fused hits are kept, the
\* kept hits are (before diversification) in fused order, and with
\* diversification off two returned hits are in the same relative order
\* under every filter set
C20_FiltersAfterFusion ==
    (fn.op = "rank" /\ fn.pc = "done")
        => /\ FusionIgnoresFilters
           /\ ~fn.enable_diversity =>
                 /\ fn.results = Take(fn.filtered, fn.top_k)
                 /\ \A F \in RankFilters : SameOrder(fn.results, ResultsUnder(F))

\* a call whose filter set dropped a fused hit ranked above a hit it kept
\* and returned, next to another kept hit
C20_Witness ==
    /\ fn.op = "rank" /\ fn.pc = "done"
    /\ fn.F # NoFilters
    /\ Len(fn.results) >= 2
    /\ \E i, j \in 1..Len(fn.combined_results) :
          /\ i < j
          /\ fn.combined_results[i].id \notin IdsOf(fn.filtered)
          /\ fn.combined_results[j].id \in IdsOf(fn.results)

\* C20 (filters act only after fusion), as stated: both index answers are
\* fused without any filter, the fused score and the relative order of any
\* two returned hits are the same for every filter set, and the kept hits
\* are (before diversification) in fused order
C20_ReturnedOrderAnyFilterSet ==
    (fn.op = "rank" /\ fn.pc = "done")
        => /\ FusionIgnoresFilters
           /\ \A F \in RankFilters : SameOrder(fn.results, ResultsUnder(F))

\* C21 (dimension check on load): a load_index() that finds an index file
\* whose dimension differs from the dimension of the manager reports no
\* usable snapshot: it returns false and leaves the manager as it was
C21_DimensionCheckOnLoad ==
    (fn.op = "faiss" /\ fn.call.name = "load_index" /\ fn.call.file # None
     /\ fn.call.file[1].d # fn.call.pre_dim)
        => /\ fn.call.ret = FALSE
           /\ fn.f = fn.call.pre_f
           /\ fn.embedding_dim = fn.call.pre_dim

\* C29 (vector index alignment): after any sequence of build_index and
\* load_index calls the index holds as many vectors as startup_ids has ids,
\* position i of startup_ids is the id of vector i, and a search that
\* returns yields min(top_k, number of vectors) hits
C29_VectorIndexAlignment ==
    fn.op = "faiss"
        => /\ fn.f.index # None =>
                 /\ Len(fn.f.index[1]) = Len(fn.f.startup_ids)
                 /\ fn.f.startup_ids = fn.owners
           /\ (fn.call.name = "search" /\ fn.call.ret = "returned"
               /\ fn.f.index # None)
                 => Len(fn.call.out) = Min(fn.call.top_k, Len(fn.f.index[1]))

\* the terms in the order in which the synonym rules and then the
\* vertical-keyword rules of expand_query produce them
ProducedTerms(query) ==
    LET q == Lower(query)
        OfSynonym(e) ==
            (IF Occurs(Lower(e.term), q) THEN e.synonyms ELSE <<>>)
            \o JoinTerms([k \in 1..Len(e.synonyms) |->
                             IF Occurs(Lower(e.synonyms[k]), q)
                             THEN <<e.term>> ELSE <<>>])
        OfVertical(v) ==
            IF \E k \in 1..Len(v.keywords) : Occurs(Lower(v.keywords[k]), q)
            THEN Take(v.keywords, ExpandKeywords) ELSE <<>>
    IN  JoinTerms([i \in 1..Len(Synonyms) |-> OfSynonym(Synonyms[i])])
        \o JoinTerms([i \in 1..Len(Verticals) |-> OfVertical(Verticals[i])])

\* terms without those that equal, case-insensitively, an earlier term or a
\* term of seen
RECURSIVE DistinctTerms(_, _)
DistinctTerms(terms, seen) ==
    IF terms = <<>> THEN <<>>
    ELSE IF Lower(Head(terms)) \in seen THEN DistinctTerms(Tail(terms), seen)
    ELSE <<Head(terms)>>
         \o DistinctTerms(Tail(terms), seen \cup {Lower(Head(terms))})

\* C22 (query expansion output): expand_query returns the original query
\* followed by the added terms in the order the rules produced them, no two
\* terms equal case-insensitively, joined by spaces, and the same in every
\* process
C22_ExpansionOutput ==
    (fn.op = "expand_query" /\ fn.pc = "done")
        => LET terms == <<fn.query>>
                        \o DistinctTerms(ProducedTerms(fn.query),
                                         {Lower(fn.query)})
           IN  /\ fn.out = JoinTerms(terms)
               /\ \A o \in HashOrders : fn.out = expand_query(fn.query, o)

\* min(5 * top_k, 200)
StatedBudget(top_k) == IF 5 * top_k <= 200 THEN 5 * top_k ELSE 200

\* C23 (candidate budget): for top_k >= 1 both indices are queried for
\* exactly min(5 * top_k, 200) candidates: the vector index answers with
\* that many or with all its vectors, the keyword index with at most that
\* many, and the fused list has at most twice that many entries
C23_CandidateBudget ==
    (fn.op = "candidates" /\ fn.pc = "done" /\ fn.top_k >= 1)
        => /\ fn.fetch_k = StatedBudget(fn.top_k)
           /\ Len(fn.semantic_results) =
                  Min(StatedBudget(fn.top_k), Len(fn.f.startup_ids))
           /\ Len(fn.keyword_results) <= StatedBudget(fn.top_k)
           /\ Len(fn.combined_results) <= 2 * StatedBudget(fn.top_k)

\* both indices hold more entries than the budget, both answers are cut at
\* it and the fused list has twice as many entries
C23_Witness ==
    /\ fn.op = "candidates" /\ fn.pc = "done"
    /\ Len(fn.f.startup_ids) > fn.fetch_k
    /\ Len(fn.b.startup_ids) > fn.fetch_k
    /\ Len(fn.semantic_results) = fn.fetch_k
    /\ Len(fn.keyword_results) = fn.fetch_k
    /\ Len(fn.combined_results) = 2 * fn.fetch_k

\* C24 (Ready is terminal): the engine starts with is_initialized false, and
\* no step of an initialize(), rebuild_index() or search() call, nor a change
\* of the record store, makes is_initialized false again
C24_ReadyTerminal ==
    /\ ~is_initialized
    /\ [][is_initialized => is_initialized']_vars

\* a Ready engine whose embedding model has failed to load at least once and
\* whose last rebuild_index() found the record store empty
C24_Witness ==
    /\ is_initialized
    /\ Returned(1, "rebuild") /\ db = {}
    /\ loads.attempts > loads.done

\* C25 (result metadata): in the value search() returns, filters_applied is
\* the merged filter set and the set that decided the hits (every returned
\* hit satisfies each echoed filter, and a fused hit of the record store
\* that satisfies them is returned unless top_k hits were); total_results
\* is the number of returned hits and at most top_k; expanded_query is
\* present exactly when expansion was enabled
C25_ResultMetadata ==
    (last.op = "search" /\ last.ret = "returned")
        => /\ last.filters_applied =
                  MergeFilters(last.explicit, extract_filters(last.query))
           /\ \A i \in 1..Len(last.results) :
                 Satisfies(Catalog[last.results[i].id], last.filters_applied)
           /\ Len(last.results) < last.top_k
                 => \A i \in 1..Len(last.combined_results) :
                      LET id == last.combined_results[i].id IN
                      (id \in last.store
                       /\ Satisfies(Catalog[id], last.filters_applied))
                          => id \in IdsOf(last.results)
           /\ last.total_results = Len(last.results)
           /\ last.total_results <= last.top_k
           /\ (last.expanded_query # None) <=> last.enable_expansion

\* C26 (no-category bucket): the hits without a category that the
\* round-robin phase of diversify emits are the highest-ranked ones, in input
\* order, and they are at most max_per_category
C26_NoCategoryBucket ==
    dv.pc = "done"
        => LET nv == NoVertical(dv.results)
               emitted == NoVertical(dv.rr)
           IN  /\ emitted = Take(nv, Len(emitted))
               /\ Len(emitted) <= StatedCap

\* the hits of bucket b in a list, in the order of the list
InBucket(hits, b) == SelectSeq(hits, LAMBDA h : BucketOf(h) = b)

\* the hits of `hits` that are in `sub`, in the order of `hits`
Among(hits, sub) == SelectSeq(hits, LAMBDA h : h.id \in IdsOf(sub))

\* C27 (within-category order): the hits of one category in the output of
\* diversify are in input order, whether round-robin or backfill emitted
\* them, and the hits round-robin takes from a category are its
\* highest-ranked ones
C27_WithinCategoryOrder ==
    dv.pc = "done"
        => \A b \in Buckets :
              /\ InBucket(dv.out, b) = Among(InBucket(dv.results, b), dv.out)
              /\ b # None =>
                    InBucket(dv.rr, b) =
                        Take(InBucket(dv.results, b), Len(InBucket(dv.rr, b)))

\* an output in which a category has a hit emitted by round-robin and two
\* hits added by backfill
C27_Witness ==
    /\ dv.pc = "done"
    /\ \E b \in Buckets \ {None} :
          /\ InBucket(dv.rr, b) # <<>>
          /\ Len(InBucket(dv.out, b)) >= Len(InBucket(dv.rr, b)) + 2

\* C30 (output is a selection of the input): every hit of the output of
\* diversify is a hit of the input and no hit is in the output twice
C30_OutputIsSelection ==
    dv.pc = "done"
        => /\ Range(dv.out) \subseteq Range(dv.results)
           /\ \A i, j \in 1..Len(dv.out) : i # j => dv.out[i].id # dv.out[j].id

\* an output that reorders a proper part of the input: backfill added a hit
\* and a hit of the input is left out
C30_Witness ==
    /\ dv.pc = "done"
    /\ Len(dv.rr) >= 2 /\ Len(dv.rr) < Len(dv.out)
    /\ Len(dv.out) < Len(dv.results)
    /\ \E i, j \in 1..Len(dv.out) : i < j /\ dv.out[i].id > dv.out[j].id

\* C28 (shared weight restored on every exit): whenever no search() is in
\* progress, semantic_weight is the configured default
C28_WeightRestored ==
    (\A t \in Threads : ~(th[t].op = "search" /\ th[t].pc # "done"))
        => semantic_weight = DefaultSemanticWeight

=============================================================================
